---- MODULE Spec2Model ----
(***************************************************************************)
(* FixOnce browser extension: the background service worker's batching     *)
(* queue and admission check (extension/background.js) and the popup's     *)
(* whitelist operations and admission decision (extension/popup.js).       *)
(*                                                                         *)
(* A host string is a sequence of one-character strings, so that the       *)
(* regular expressions and the split(':') of the code are computed on the  *)
(* characters, as the code computes them.                                  *)
(***************************************************************************)
EXTENDS Integers, Sequences, FiniteSets, TLC

VARIABLES
    errorQueue,         \* background.js:45  let errorQueue = []
    isServerAvailable,  \* background.js:46
    flushTimer,         \* background.js:47  TRUE when it holds a timeout id
    timeouts,           \* the setTimeout callbacks armed, not yet run or cleared
    inflight,           \* the batch POSTs of flushQueue awaiting their response
    acked,              \* records of the batches answered 2xx
    ackedTwice,         \* records that were in more than one batch answered 2xx
    probes,             \* checkServer / sendHandshake requests awaiting a response
    store,              \* chrome.storage.local: keys whitelist, sessionWhitelist
    pending,            \* LOG_ERROR messages whose isDomainAllowed awaits storage
    checks,             \* per message id: what its admission check saw, and the
                        \* value given to sendResponse
    popupOps,           \* popup whitelist operations between their read and write
    status,             \* popup: currentDomain and the isDomainAllowed of updateUI
    sessions,           \* session starts so far (onInstalled / onStartup)
    msgCount,           \* LOG_ERROR messages received so far
    run,                \* what the run offers: the number of LOG_ERROR
                        \* messages, the number of concurrent POSTs, the hosts
                        \* of the tabs that send messages, the hosts of the
                        \* tabs the popup is opened on
    streak,             \* the records of the consecutive queueError calls since
                        \* a clean start, and the POSTs begun by them
    windowMsgs,         \* 'message' events of the window awaiting the bridge
    channel,            \* LOG_ERROR messages of the bridge awaiting the
                        \* background's listener
    handled,            \* the window events the bridge has handled, in order,
                        \* each with what became of it
    relayed,            \* per message of the bridge the background received:
                        \* its message id, the window event, the payload
    lastCall,           \* the last call of an overridden console function
    fetches,            \* calls of the wrapped fetch that have not settled
    lastFetch,          \* the wrapped fetch call that settled last
    pageEvents,         \* calls and posts made by the page so far
    pageRun,            \* what the run offers on the page: the number of its
                        \* events, the console arguments, the fetch calls, the
                        \* messages it posts itself
    rawText,            \* the string given to sanitize
    clean,              \* what sanitize made of it, and how often it ran
    ACTIVE_PORT,        \* background.js:9
    endpoints,          \* the port in SERVER_URL, BATCH_URL, HANDSHAKE_URL and
                        \* CURRENT_SITE_URL (background.js:10-13)
    pingAnswers,        \* per port of PORT_RANGE: how /api/ping answers there
    discoveries,        \* the calls of discoverServer: how many began, and of
                        \* those that have not returned the port and the await
                        \* they are at; how many may begin in the run
    lastDiscovery,      \* the call of discoverServer that returned last
    now,                \* Node.js hook: Date.now(), in ms since the hook loaded
    errorTimestamps,    \* Node.js hook: const errorTimestamps = []
    isSending,          \* Node.js hook: let isSending = false
    sendLog,            \* Node.js hook: the times of the calls of fetch by
                        \* sendError so far
    hookEvents,         \* Node.js hook: the errors reported and the advances of
                        \* the clock so far, whether the process lives, and the
                        \* calls of fetch by sendError that have not settled
    tabErrorCounts,     \* background.js:117  const tabErrorCounts = {}; a tab
                        \* is named by the host of its page, no entry is 0
    xhr,                \* logger: an XMLHttpRequest object of the page: the
                        \* load/error listener pairs the wrapped send added to
                        \* it, whether a request is under way, its method, url
    lastXhr,            \* what the last load or error event of the object
                        \* made the logger post
    lastOp,             \* the whitelist write that completed last: an
                        \* addToWhitelist or a removeFromWhitelist of the popup
                        \* (and its origin), or the clear of a session start
    lastFlush           \* what the last step of the queue did: queueError armed
                        \* the timer, flushQueue was called (by whom, on what), a
                        \* POST was answered (its outcome, its batch and the queue
                        \* before it), checkServer handled its response

vars == << errorQueue, isServerAvailable, flushTimer, timeouts, inflight, acked,
           ackedTwice, probes, store, pending, checks, popupOps, status,
           sessions, msgCount, run, streak, lastFlush, windowMsgs, channel,
           handled, relayed, lastCall, fetches, lastFetch, pageEvents, pageRun,
           rawText, clean, ACTIVE_PORT, endpoints, pingAnswers, discoveries,
           lastDiscovery, now, errorTimestamps, isSending, sendLog, hookEvents,
           lastOp, xhr, lastXhr, tabErrorCounts >>

queueVars == << errorQueue, isServerAvailable, flushTimer, timeouts, inflight,
               acked, ackedTwice, streak, lastFlush >>
admissionVars == << store, popupOps, status, sessions, lastOp >>
sanitizerVars == << rawText, clean >>
discoveryVars == << ACTIVE_PORT, endpoints, pingAnswers, discoveries,
                   lastDiscovery >>
hookVars == << now, errorTimestamps, isSending, sendLog, hookEvents >>
xhrVars == << xhr, lastXhr >>
toolVars == << sanitizerVars, discoveryVars, hookVars, xhrVars >>
loggerVars == << windowMsgs, channel, handled, relayed, lastCall, fetches,
                 lastFetch, pageEvents, pageRun >>
pageVars == << loggerVars, toolVars >>
backgroundVars == << queueVars, admissionVars, probes, pending, checks, msgCount,
                     run, tabErrorCounts >>

----------------------------------------------------------------------------
(* Bounds of the model *)

MaxRecords == 2        \* LOG_ERROR messages in a run of the admission
MaxBatchRecords == 11  \* LOG_ERROR messages in a run that fills the queue
MaxQueueRecords == 4   \* LOG_ERROR messages in a run of the queue's flushes
MaxInflight == 2       \* batch POSTs awaiting their response at one time
MaxBatchInflight == 1  \* the same, in a run that fills the queue
MaxPending == 2        \* admission checks awaiting storage at one time
MaxPopupOps == 1       \* popup operations between read and write at one time
MaxCaptureRecords == 1 \* LOG_ERROR messages in a run with the history of the writes
MaxLegacyArgs == 2     \* arguments of a call of console.error / console.warn
MaxOverlappingOps == 2 \* the same, while two popup pages are open
MaxSessions == 1       \* session starts in a run
MaxProbes == 1         \* reachability requests awaiting a response at one time
MaxPageEvents == 2     \* console calls, fetch calls and posts of the page
MaxPieces == 3         \* pieces of a string given to sanitize
MaxDiscoveries == 1    \* calls of discoverServer in a run
MaxConcurrentDiscoveries == 2 \* the same, in a run where the calls overlap
MaxPortRecords == 1    \* LOG_ERROR messages in a run of the discovery
MaxHookErrors == 12    \* errors reported to the Node.js hook in a run
MaxTicks == 3          \* advances of the clock of the Node.js hook in a run

(* Program constants *)

BATCH_SIZE == 10

----------------------------------------------------------------------------
(* Host strings *)

Digits == {"0", "1", "2", "3", "4", "5", "6", "7", "8", "9"}

h_localhost == << "l","o","c","a","l","h","o","s","t" >>
h_localhost5173 == h_localhost \o << ":","5","1","7","3" >>
h_localhost81 == h_localhost \o << ":","8","1" >>
h_loopback == << "1","2","7",".","0",".","0",".","1" >>
h_loopback81 == h_loopback \o << ":","8","1" >>
h_anyaddr == << "0",".","0",".","0",".","0" >>
h_appLocal == << "a","p","p",".","l","o","c","a","l" >>
h_appLocal81 == h_appLocal \o << ":","8","1" >>
h_appLocalhost == << "a",".","l","o","c","a","l","h","o","s","t" >>
h_localX == << "l","o","c","a","l",".","x" >>
h_devX == << "d","e","v",".","x" >>
h_devX81 == h_devX \o << ":","8","1" >>
h_stagingX == << "s","t","a","g","i","n","g",".","x" >>
h_example == << "e","x",".","c","o","m" >>
h_example81 == h_example \o << ":","8","1" >>
h_example3000 == h_example \o << ":","3","0","0","0" >>
h_example8888 == h_example \o << ":","8","8","8","8" >>
h_aio == << "a",".","i","o" >>
h_mylocalhost == << "m","y","l","o","c","a","l","h","o","s","t" >>
h_localhostx == h_localhost \o << "x" >>
h_devx == << "d","e","v","x" >>
h_ipv6_3000 == << "[",":",":","1","]",":","3","0","0","0" >>
h_ipv6 == << "[",":",":","1","]" >>
h_unknown == << "u","n","k","n","o","w","n" >>
h_empty == << >>

\* getDomain's null (background.js:86): one token that no host contains
NullDomain == << "<null>" >>

\* hosts matching one of AUTO_ALLOWED_PATTERNS, one per pattern and port form
PatternHosts ==
    { h_localhost, h_localhost5173, h_localhost81, h_loopback, h_loopback81,
      h_anyaddr, h_appLocal, h_appLocal81, h_appLocalhost, h_localX, h_devX,
      h_devX81, h_stagingX }

\* hosts matching no pattern whose port (URL.port) is one of DEV_PORTS
DevPortHosts == { h_example3000, h_example8888, h_ipv6_3000 }

\* hosts matching no pattern, with no port or a port outside DEV_PORTS
PlainHosts ==
    { h_example, h_example81, h_aio, h_mylocalhost, h_localhostx, h_devx,
      h_ipv6, h_unknown, h_empty }

Hosts == PatternHosts \cup DevPortHosts \cup PlainHosts

----------------------------------------------------------------------------
(* Regular expressions of AUTO_ALLOWED_PATTERNS, on character sequences *)

IsDigits(s) == Len(s) > 0 /\ \A i \in 1..Len(s) : s[i] \in Digits

StartsWith(s, p) == Len(s) >= Len(p) /\ SubSeq(s, 1, Len(p)) = p

EndsWith(s, p) ==
    Len(s) >= Len(p) /\ SubSeq(s, Len(s) - Len(p) + 1, Len(s)) = p

\* the strings b with s = b or s = b ":" digits+ : what is left for the body
\* of a pattern that ends in (:\d+)?$
OptPortBodies(s) ==
    {s} \cup { SubSeq(s, 1, i - 1) : i \in { j \in 1..Len(s) :
                   s[j] = ":" /\ IsDigits(SubSeq(s, j + 1, Len(s))) } }

\* /^lit(:\d+)?$/
MatchLiteral(s, lit) == lit \in OptPortBodies(s)

\* /^.*lit(:\d+)?$/
MatchSuffix(s, lit) == \E b \in OptPortBodies(s) : EndsWith(b, lit)

\* /^lit.*(:\d+)?$/
MatchPrefix(s, lit) == StartsWith(s, lit)

MatchesAutoPattern(domain) ==
    \/ MatchLiteral(domain, h_localhost)
    \/ MatchLiteral(domain, h_loopback)
    \/ MatchLiteral(domain, h_anyaddr)
    \/ MatchSuffix(domain, << ".","l","o","c","a","l" >>)
    \/ MatchSuffix(domain, << "." >> \o h_localhost)
    \/ MatchPrefix(domain, << "l","o","c","a","l","." >>)
    \/ MatchPrefix(domain, << "d","e","v","." >>)
    \/ MatchPrefix(domain, << "s","t","a","g","i","n","g","." >>)

DEV_PORTS ==
    { << "3","0","0","0" >>, << "3","0","0","1" >>, << "4","2","0","0" >>,
      << "5","0","0","0" >>, << "5","1","7","3" >>, << "5","1","7","4" >>,
      << "8","0","0","0" >>, << "8","0","8","0" >>, << "8","8","8","8" >> }

Undefined == << "<undefined>" >>

\* domain.split(':')[1]: the piece between the first colon and the next one
\* (or the end); undefined when the string has no colon
SplitColon1(s) ==
    LET colons == { i \in 1..Len(s) : s[i] = ":" }
    IN  IF colons = {} THEN Undefined
        ELSE LET first == CHOOSE i \in colons : \A j \in colons : i <= j
                 later == { i \in colons : i > first }
                 stop  == IF later = {} THEN Len(s) + 1
                          ELSE CHOOSE i \in later : \A j \in later : i <= j
             IN  SubSeq(s, first + 1, stop - 1)

\* popup.js isAutoAllowed
PortIsDev(domain) ==
    LET port == SplitColon1(domain)
    IN  port # Undefined /\ port # << >> /\ port \in DEV_PORTS

PopupIsAutoAllowed(domain) ==
    MatchesAutoPattern(domain) \/ PortIsDev(domain)

\* background.js isAutoAllowed: the same, after  if (!domain) return false
isAutoAllowed(domain) ==
    IF domain = NullDomain \/ domain = << >> THEN FALSE
    ELSE MatchesAutoPattern(domain) \/ PortIsDev(domain)

----------------------------------------------------------------------------
(* chrome.storage.local and the whitelist functions of popup.js *)

\* a key that was never set reads as undefined
StoredLists(hs) ==
    { Undefined } \cup { q \in UNION { [1..n -> hs] : n \in 0..Cardinality(hs) } :
                           \A i, j \in 1..Len(q) : i # j => q[i] # q[j] }

OrEmpty(v) == IF v = Undefined THEN << >> ELSE v

Includes(list, d) == \E i \in 1..Len(list) : list[i] = d

getWhitelist(st) ==
    [ permanent |-> OrEmpty(st.whitelist), session |-> OrEmpty(st.sessionWhitelist) ]

Filter(list, d) == SelectSeq(list, LAMBDA x : x # d)

\* addToWhitelist after its read: the keys it sets, as a function on the store
AddWriteMutant(st, lists, domain, permanent) ==
    IF permanent
    THEN [st EXCEPT !.whitelist = Append(lists.permanent, domain)]
    ELSE [st EXCEPT !.sessionWhitelist = Append(lists.session, domain)]
AddWrite(st, lists, domain, permanent) ==
    IF permanent
    THEN IF Includes(lists.permanent, domain) THEN st
         ELSE [st EXCEPT !.whitelist = Append(lists.permanent, domain)]
    ELSE IF Includes(lists.session, domain) THEN st
         ELSE [st EXCEPT !.sessionWhitelist = Append(lists.session, domain)]

\* does addToWhitelist reach a chrome.storage.local.set
AddWrites(lists, domain, permanent) ==
    IF permanent THEN ~Includes(lists.permanent, domain)
    ELSE ~Includes(lists.session, domain)

\* removeFromWhitelist after its read: it sets both keys
RemoveWriteMutant(st, lists, domain) ==
    [ whitelist |-> Filter(lists.permanent, domain),
      sessionWhitelist |-> lists.session ]
RemoveWrite(st, lists, domain) ==
    [ whitelist |-> Filter(lists.permanent, domain),
      sessionWhitelist |-> Filter(lists.session, domain) ]

\* popup.js isDomainAllowed on the lists getWhitelist returned
PopupDecisionMutant(domain, lists) ==
    IF Includes(lists.session, domain) THEN [allowed |-> TRUE, reason |-> "session"]
    ELSE IF Includes(lists.permanent, domain)
         THEN [allowed |-> TRUE, reason |-> "whitelist"]
    ELSE IF PopupIsAutoAllowed(domain) THEN [allowed |-> TRUE, reason |-> "auto"]
    ELSE [allowed |-> FALSE, reason |-> "blocked"]
PopupDecision(domain, lists) ==
    IF PopupIsAutoAllowed(domain) THEN [allowed |-> TRUE, reason |-> "auto"]
    ELSE IF Includes(lists.permanent, domain)
         THEN [allowed |-> TRUE, reason |-> "whitelist"]
    ELSE IF Includes(lists.session, domain)
         THEN [allowed |-> TRUE, reason |-> "session"]
    ELSE [allowed |-> FALSE, reason |-> "blocked"]

\* background.js isDomainAllowed after its storage read
Listed(domain, result) ==
    Includes(OrEmpty(result.whitelist), domain)
        \/ Includes(OrEmpty(result.sessionWhitelist), domain)

----------------------------------------------------------------------------
(* The batching queue of background.js *)

NoStreak == [ recs |-> << >>, posts |-> 0 ]

NoFlush == [ outcome |-> "none" ]

\* flushQueue's early return (background.js:180)
FlushReturnsMutant(q, avail) == q = << >>
FlushReturns(q, avail) == q = << >> \/ ~avail

\* queueError's test for an immediate flush (background.js:211)
BatchFullMutant(q) == Len(q) > BATCH_SIZE
BatchFull(q) == Len(q) >= BATCH_SIZE

\* errorQueue.unshift(...batch) (background.js:192, 195)
RequeueMutant(batch, q) == q \o batch
Requeue(batch, q) == batch \o q

\* the queue after a 2xx response: the batch is not put back
AfterAckMutant(batch, q) == batch \o q
AfterAck(batch, q) == q

\* flushQueue up to its await (background.js:179-189), on queue q, flag avail
\* and the POSTs infl in flight: the queue it leaves and the POSTs in flight
flushQueueMutant(q, avail, infl) ==
    IF FlushReturns(q, avail)
    THEN [ queue |-> q, inflight |-> infl ]
    ELSE [ queue |-> q,
           inflight |-> { [e EXCEPT !.overlapped = TRUE] : e \in infl }
                \cup { [ batch |-> q, during |-> << >>,
                         overlapped |-> infl # {} ] } ]
flushQueue(q, avail, infl) ==
    IF FlushReturns(q, avail)
    THEN [ queue |-> q, inflight |-> infl ]
    ELSE [ queue |-> << >>,
           inflight |-> { [e EXCEPT !.overlapped = TRUE] : e \in infl }
                \cup { [ batch |-> q, during |-> << >>,
                         overlapped |-> infl # {} ] } ]

FlushQueue(q, infl) ==
    /\ errorQueue' = flushQueue(q, isServerAvailable, infl).queue
    /\ inflight' = flushQueue(q, isServerAvailable, infl).inflight

\* what a call of flushQueue leaves in lastFlush: the caller, and the queue,
\* the flag, the POSTs in flight and the timer as they were at the call
Called(by, q, infl, timer, n) ==
    [ outcome |-> "called", by |-> by, queue |-> q, avail |-> isServerAvailable,
      infl |-> infl, timer |-> timer, timeouts |-> n ]

\* scheduleFlush (background.js:199-206): the handle and the armed timeouts
scheduleFlushMutant(timer, n) == [ timer |-> TRUE, timeouts |-> n + 1 ]
scheduleFlush(timer, n) ==
    IF timer THEN [ timer |-> timer, timeouts |-> n ]
    ELSE [ timer |-> TRUE, timeouts |-> n + 1 ]

\* if (flushTimer) { clearTimeout(flushTimer); flushTimer = null }
\* (background.js:212-215)
clearFlushTimerMutant(timer, n) == [ timer |-> timer, timeouts |-> n ]
clearFlushTimer(timer, n) ==
    IF timer THEN [ timer |-> FALSE, timeouts |-> n - 1 ]
    ELSE [ timer |-> timer, timeouts |-> n ]

\* a flush of q may begin only below the bound on concurrent POSTs
MayFlush(q) ==
    FlushReturns(q, isServerAvailable) \/ Cardinality(inflight) < run.posts

Clean == errorQueue = << >> /\ ~flushTimer /\ isServerAvailable

\* queueError(payload) (background.js:208-220), with scheduleFlush and the
\* flushQueue it may call; every POST in flight notes the record as enqueued
\* during it
queueError(payload) ==
    LET q == Append(errorQueue, payload)
        posts == IF BatchFull(q) /\ ~FlushReturns(q, isServerAvailable)
                 THEN 1 ELSE 0
        noted == { [e EXCEPT !.during = Append(@, payload)] : e \in inflight }
        cleared == clearFlushTimer(flushTimer, timeouts)
        armed == scheduleFlush(flushTimer, timeouts)
    IN  /\ BatchFull(q) => MayFlush(q)
        /\ IF BatchFull(q)
           THEN /\ flushTimer' = cleared.timer
                /\ timeouts' = cleared.timeouts
                /\ FlushQueue(q, noted)
                /\ lastFlush' = Called("queueError", q, noted, cleared.timer,
                                       cleared.timeouts)
           ELSE /\ flushTimer' = armed.timer
                /\ timeouts' = armed.timeouts
                /\ errorQueue' = q
                /\ inflight' = noted
                /\ lastFlush' = [ outcome |-> "scheduled", rec |-> payload ]
        /\ streak' = IF Clean THEN [ recs |-> << payload >>, posts |-> posts ]
                     ELSE IF streak.recs # << >> /\ Len(streak.recs) < BATCH_SIZE
                     THEN [ recs |-> Append(streak.recs, payload),
                            posts |-> streak.posts + posts ]
                     ELSE NoStreak
        /\ UNCHANGED << isServerAvailable, acked, ackedTwice >>

\* the setTimeout callback of scheduleFlush (background.js:202-205)
TimerFire ==
    /\ timeouts > 0
    /\ MayFlush(errorQueue)
    /\ flushTimer' = FALSE
    /\ timeouts' = timeouts - 1
    /\ FlushQueue(errorQueue, inflight)
    /\ streak' = NoStreak
    /\ lastFlush' = Called("timer", errorQueue, inflight, FALSE, timeouts - 1)
    /\ UNCHANGED << isServerAvailable, acked, ackedTwice, probes, pending,
                    checks, msgCount >>
    /\ UNCHANGED admissionVars /\ UNCHANGED << run, tabErrorCounts, pageVars >>

Range(q) == { q[i] : i \in 1..Len(q) }

\* the POST of flushQueue is answered 2xx (background.js:191, response.ok)
FlushOk ==
    \E e \in inflight :
        /\ inflight' = inflight \ {e}
        /\ errorQueue' = AfterAck(e.batch, errorQueue)
        /\ acked' = acked \cup Range(e.batch)
        /\ ackedTwice' = ackedTwice \cup (acked \cap Range(e.batch))
        /\ streak' = NoStreak
        /\ lastFlush' = [ outcome |-> "ok", post |-> e, before |-> errorQueue ]
        /\ UNCHANGED << isServerAvailable, flushTimer, timeouts, probes, pending,
                        checks, msgCount >>
        /\ UNCHANGED admissionVars /\ UNCHANGED << run, tabErrorCounts, pageVars >>

\* the POST is answered non-2xx, or fetch throws (background.js:191-196)
FlushFail ==
    \E e \in inflight :
        /\ inflight' = inflight \ {e}
        /\ errorQueue' = Requeue(e.batch, errorQueue)
        /\ streak' = NoStreak
        /\ lastFlush' = [ outcome |-> "fail", post |-> e, before |-> errorQueue ]
        /\ UNCHANGED << isServerAvailable, flushTimer, timeouts, acked, ackedTwice,
                        probes, pending, checks, msgCount >>
        /\ UNCHANGED admissionVars /\ UNCHANGED << run, tabErrorCounts, pageVars >>

\* setInterval(checkServer, 30000): the GET /api/config is sent
CheckServer ==
    /\ probes.config < MaxProbes
    /\ probes' = [probes EXCEPT !.config = @ + 1]
    /\ UNCHANGED queueVars /\ UNCHANGED << pending, checks, msgCount >>
    /\ UNCHANGED admissionVars /\ UNCHANGED << run, tabErrorCounts, pageVars >>

\* checkServer after its fetch (background.js:168-176)
CheckServerDone ==
    \E outcome \in {"ok", "notok", "throw"} :
        /\ probes.config > 0
        /\ outcome = "ok" => probes.handshake < MaxProbes
        /\ isServerAvailable' = (outcome = "ok")
        /\ probes' = [ config |-> probes.config - 1,
                       handshake |-> probes.handshake
                                       + (IF outcome = "ok" THEN 1 ELSE 0) ]
        /\ streak' = NoStreak
        /\ lastFlush' = [ outcome |-> "probed", ok |-> outcome = "ok",
                          queue |-> errorQueue ]
        /\ UNCHANGED << errorQueue, flushTimer, timeouts, inflight, acked,
                        ackedTwice, pending, checks, msgCount >>
        /\ UNCHANGED admissionVars /\ UNCHANGED << run, tabErrorCounts, pageVars >>

\* sendHandshake after its fetch (background.js:135-141)
HandshakeDone ==
    \E ok \in BOOLEAN :
        /\ probes.handshake > 0
        /\ probes' = [probes EXCEPT !.handshake = @ - 1]
        /\ isServerAvailable' = (ok \/ isServerAvailable)
        /\ streak' = NoStreak
        /\ lastFlush' = NoFlush
        /\ UNCHANGED << errorQueue, flushTimer, timeouts, inflight, acked,
                        ackedTwice, pending, checks, msgCount >>
        /\ UNCHANGED admissionVars /\ UNCHANGED << run, tabErrorCounts, pageVars >>

----------------------------------------------------------------------------
(* The port discovery of background.js (lines 8-43) *)

PORT_RANGE == << 5000, 5001, 5002, 5003, 5004, 5005 >>

EndpointNames == { "SERVER_URL", "BATCH_URL", "HANDSHAKE_URL", "CURRENT_SITE_URL" }

\* how GET /api/ping may end on a port: fetch rejects, the response is not
\* ok, response.json() rejects, the body names another service, the body
\* names fixonce
PingAnswers == { "throw", "notok", "badjson", "other", "fixonce" }

NoDiscovery == [ id |-> 0 ]

DiscoveryReturned(r, result, port) ==
    [ id |-> r.id, result |-> result, port |-> port,
      activeBefore |-> ACTIVE_PORT, endpointsBefore |-> endpoints ]

\* the loop goes on to the next port, or ends: return false (lines 19, 37-42)
NextPort(r) ==
    IF r.at < Len(PORT_RANGE)
    THEN /\ discoveries' = [discoveries EXCEPT !.running =
                 (@ \ {r}) \cup { [r EXCEPT !.at = @ + 1, !.phase = "fetch"] }]
         /\ UNCHANGED << ACTIVE_PORT, endpoints, lastDiscovery >>
    ELSE /\ discoveries' = [discoveries EXCEPT !.running = @ \ {r}]
         /\ lastDiscovery' = DiscoveryReturned(r, FALSE, 0)
         /\ UNCHANGED << ACTIVE_PORT, endpoints >>

\* the ports of the four URLs after the assignments of lines 29-32
EndpointUrlsMutant(port) ==
    [ u \in EndpointNames |->
        IF u = "CURRENT_SITE_URL" THEN endpoints[u] ELSE port ]
EndpointUrls(port) == [ u \in EndpointNames |-> port ]

\* the port is adopted: the five assignments and return true (lines 28-34)
AdoptMutant(r) ==
    /\ ACTIVE_PORT' = PORT_RANGE[Len(PORT_RANGE)]
    /\ endpoints' = [ u \in EndpointNames |-> PORT_RANGE[Len(PORT_RANGE)] ]
    /\ discoveries' = [discoveries EXCEPT !.running = @ \ {r}]
    /\ lastDiscovery' = DiscoveryReturned(r, TRUE, PORT_RANGE[Len(PORT_RANGE)])
Adopt(r) ==
    /\ ACTIVE_PORT' = PORT_RANGE[r.at]
    /\ endpoints' = EndpointUrls(PORT_RANGE[r.at])
    /\ discoveries' = [discoveries EXCEPT !.running = @ \ {r}]
    /\ lastDiscovery' = DiscoveryReturned(r, TRUE, PORT_RANGE[r.at])

\* discoverServer is called, at start-up (line 343) or by checkServer
\* (lines 164, 175): the first port is probed (lines 18-21)
DiscoverStart ==
    /\ discoveries.began < discoveries.limit
    /\ discoveries' = [discoveries EXCEPT
                          !.began = @ + 1,
                          !.running = @ \cup
                            { [ id |-> discoveries.began + 1, at |-> 1,
                                phase |-> "fetch" ] }]
    /\ UNCHANGED << ACTIVE_PORT, endpoints, pingAnswers, lastDiscovery >>
    /\ UNCHANGED << loggerVars, sanitizerVars, hookVars, xhrVars >>
    /\ UNCHANGED backgroundVars

\* the fetch of a probe settles (lines 21-25, 37-39)
DiscoverFetched ==
    \E r \in discoveries.running :
        /\ r.phase = "fetch"
        /\ IF pingAnswers[PORT_RANGE[r.at]] \in { "throw", "notok" }
           THEN NextPort(r)
           ELSE /\ discoveries' = [discoveries EXCEPT !.running =
                        (@ \ {r}) \cup { [r EXCEPT !.phase = "json"] }]
                /\ UNCHANGED << ACTIVE_PORT, endpoints, lastDiscovery >>
        /\ UNCHANGED pingAnswers
        /\ UNCHANGED << loggerVars, sanitizerVars, hookVars, xhrVars >>
        /\ UNCHANGED backgroundVars

\* response.json() of a probe settles (lines 26-36, 37-39)
DiscoverParsed ==
    \E r \in discoveries.running :
        /\ r.phase = "json"
        /\ IF pingAnswers[PORT_RANGE[r.at]] = "fixonce"
           THEN Adopt(r)
           ELSE NextPort(r)
        /\ UNCHANGED pingAnswers
        /\ UNCHANGED << loggerVars, sanitizerVars, hookVars, xhrVars >>
        /\ UNCHANGED backgroundVars

\* the server is on one port of PORT_RANGE, or on none: nothing listens on
\* the other ports
ServerOn(port) ==
    [ p \in Range(PORT_RANGE) |-> IF p = port THEN "fixonce" ELSE "throw" ]

\* the ports the server is started on in a run, in this order
ServerPorts == << 5001, 5002 >>

\* the FixOnce server is started again, on the port that follows the one it
\* was on, while the extension runs
ServerMoves ==
    \E k \in 1..(Len(ServerPorts) - 1) :
        /\ pingAnswers = ServerOn(ServerPorts[k])
        /\ pingAnswers' = ServerOn(ServerPorts[k + 1])
        /\ UNCHANGED << ACTIVE_PORT, endpoints, discoveries, lastDiscovery >>
        /\ UNCHANGED << loggerVars, sanitizerVars, hookVars, xhrVars >>
        /\ UNCHANGED backgroundVars

----------------------------------------------------------------------------
(* The LOG_ERROR listener of background.js *)

\* background.js isDomainAllowed (lines 91-100) on the lists its read returns
BackgroundAllows(domain, result) ==
    IF domain = NullDomain \/ domain = << >> THEN FALSE
    ELSE isAutoAllowed(domain) \/ Listed(domain, result)

\* a whitelist write that completed (observer)
Completed(op, domain) == [ op |-> op, domain |-> domain ]

NoOp == Completed("none", Undefined)

\* the observer is kept in the runs that look at the order of the whitelist
\* writes and the admission checks
Noted(op, domain) == IF run.history THEN Completed(op, domain) ELSE lastOp

ReadFailed == [ failed |-> TRUE ]

NotRead == [ failed |-> FALSE ]

Record(id, domain) == [ id |-> id, domain |-> domain ]

\* what the admission check of a message can rest on: the shape of the host,
\* and the lists its storage read returned
Saw(domain, st) ==
    IF domain = NullDomain \/ domain = << >> THEN "nodomain"
    ELSE IF MatchesAutoPattern(domain) \/ PortIsDev(domain) THEN "auto"
    ELSE IF st = NotRead THEN "nothing"
    ELSE IF st = ReadFailed THEN "unreadable"
    ELSE IF Includes(OrEmpty(st.whitelist), domain) THEN "whitelist"
    ELSE IF Includes(OrEmpty(st.sessionWhitelist), domain) THEN "session"
    ELSE "unlisted"

\* tabErrorCounts[tabId] = (tabErrorCounts[tabId] || 0) + 1 (background.js:
\* 246-251); a tab is named by the host of its page
Counted(counts, tab) == [counts EXCEPT ![tab] = @ + 1]

\* the .then callback of the listener (background.js:230-254), for the
\* message whose entry in cs is id
ThenMutant(cs, id, allowed) ==
    /\ queueError(Record(id, cs[id].domain))
    /\ tabErrorCounts' = Counted(tabErrorCounts, cs[id].domain)
    /\ checks' = [cs EXCEPT ![id].answer = "queued"]
Then(cs, id, allowed) ==
    IF allowed
    THEN /\ queueError(Record(id, cs[id].domain))
         /\ tabErrorCounts' = Counted(tabErrorCounts, cs[id].domain)
         /\ checks' = [cs EXCEPT ![id].answer = "queued"]
    ELSE /\ checks' = [cs EXCEPT ![id].answer = "domain_blocked"]
         /\ UNCHANGED << queueVars, tabErrorCounts >>

\* a LOG_ERROR message from a tab on `host` arrives (background.js:224-257).
\* isDomainAllowed answers without awaiting storage for no domain (false) and
\* for an auto-allowed one (true), and the .then callback then runs before any
\* other task; otherwise the storage read is requested.
LogErrorFrom(host) ==
        LET id == msgCount + 1
            entry == [ domain |-> host, saw |-> Saw(host, NotRead),
                       answer |-> "none", began |-> lastOp, read |-> NoOp ]
            cs == [ i \in 1..id |-> IF i = id THEN entry ELSE checks[i] ]
        IN  /\ msgCount < run.msgs
            /\ msgCount' = id
            /\ IF host = NullDomain \/ host = << >>
               THEN Then(cs, id, FALSE) /\ pending' = pending
               ELSE IF isAutoAllowed(host)
               THEN Then(cs, id, TRUE) /\ pending' = pending
               ELSE /\ Len(pending) < MaxPending
                    /\ pending' = Append(pending,
                         [ id |-> id, phase |-> "get", result |-> ReadFailed ])
                    /\ checks' = cs
                    /\ UNCHANGED << queueVars, tabErrorCounts >>
            /\ UNCHANGED probes
            /\ UNCHANGED admissionVars /\ UNCHANGED run

LogError == \E host \in run.senders : LogErrorFrom(host) /\ UNCHANGED pageVars

\* chrome.storage.local.get of the oldest waiting check is served: it yields
\* the stored lists, or fails
StorageRead ==
    \E i \in 1..Len(pending), ok \in BOOLEAN :
        /\ pending[i].phase = "get"
        /\ \A j \in 1..(i - 1) : pending[j].phase = "got"
        /\ pending' = [pending EXCEPT ![i] =
              [ id |-> @.id, phase |-> "got",
                result |-> IF ok THEN store ELSE ReadFailed ]]
        /\ checks' = [checks EXCEPT
              ![pending[i].id].saw =
                  Saw(checks[pending[i].id].domain, IF ok THEN store ELSE ReadFailed),
              ![pending[i].id].read = lastOp]
        /\ UNCHANGED queueVars /\ UNCHANGED << probes, msgCount >>
        /\ UNCHANGED admissionVars /\ UNCHANGED << run, tabErrorCounts, pageVars >>

\* isDomainAllowed resumes after its await (background.js:95-99) and the
\* listener's .then callback runs; a rejected read rejects the promise, and
\* the callback never runs
AfterReadMutant(id, result) ==
    IF result = ReadFailed THEN Then(checks, id, TRUE)
    ELSE Then(checks, id, Listed(checks[id].domain, result))
AfterRead(id, result) ==
    IF result = ReadFailed
    THEN checks' = checks /\ UNCHANGED << queueVars, tabErrorCounts >>
    ELSE Then(checks, id, Listed(checks[id].domain, result))

\* the check that was requested last resumes first
ResolveMutant ==
    /\ pending # << >>
    /\ pending[Len(pending)].phase = "got"
    /\ pending' = SubSeq(pending, 1, Len(pending) - 1)
    /\ AfterRead(pending[Len(pending)].id, pending[Len(pending)].result)
    /\ UNCHANGED << probes, msgCount >>
    /\ UNCHANGED admissionVars /\ UNCHANGED << run, pageVars >>
Resolve ==
    /\ pending # << >>
    /\ pending[1].phase = "got"
    /\ pending' = Tail(pending)
    /\ AfterRead(pending[1].id, pending[1].result)
    /\ UNCHANGED << probes, msgCount >>
    /\ UNCHANGED admissionVars /\ UNCHANGED << run, pageVars >>

\* chrome.tabs.onUpdated with status 'complete' (background.js:281-289): the
\* page of a tab has loaded again, and its count starts at 0
TabComplete ==
    \E tab \in run.senders :
        /\ tabErrorCounts' = [tabErrorCounts EXCEPT ![tab] = 0]
        /\ UNCHANGED << queueVars, admissionVars, probes, pending, checks, msgCount,
                        run, pageVars >>

----------------------------------------------------------------------------
(* Session start and the popup *)

\* chrome.runtime.onInstalled / onStartup (background.js:144-158):
\* sendHandshake, and sessionWhitelist is set to []
SessionClear(st) == [st EXCEPT !.sessionWhitelist = << >>]

SessionStart ==
    /\ sessions < MaxSessions
    /\ probes.handshake < MaxProbes
    /\ sessions' = sessions + 1
    /\ probes' = [probes EXCEPT !.handshake = @ + 1]
    /\ store' = SessionClear(store)
    /\ lastOp' = Noted("clear", Undefined)
    /\ UNCHANGED queueVars
    /\ UNCHANGED << pending, checks, msgCount, popupOps, status >>
    /\ UNCHANGED << run, tabErrorCounts, pageVars >>

NoStatus == [ domain |-> Undefined ]

\* updateUI (popup.js:88-147) on the active tab: currentDomain and the
\* decision of isDomainAllowed
UpdateUI ==
    \E host \in run.tabs :
        /\ status' = [ domain |-> host,
                       decision |-> PopupDecision(host, getWhitelist(store)) ]
        /\ UNCHANGED queueVars
        /\ UNCHANGED << probes, pending, checks, msgCount, store, popupOps,
                        sessions, lastOp >>
        /\ UNCHANGED << run, tabErrorCounts, pageVars >>

\* a click on enable-btn / enable-session-btn (popup.js:177-203):
\* addToWhitelist reads the lists; when the domain is already listed it
\* completes at once and the popup closes, otherwise its write is still to come
EnableClick ==
    \E permanent \in BOOLEAN :
        LET lists == getWhitelist(store)
            d == status.domain
        IN  /\ status # NoStatus
            /\ IF AddWrites(lists, d, permanent)
               THEN /\ Cardinality(popupOps) < run.ops
                    /\ popupOps' = popupOps \cup
                         { [ op |-> "add", domain |-> d, permanent |-> permanent,
                             lists |-> lists ] }
                    /\ UNCHANGED << status, lastOp >>
               ELSE /\ status' = NoStatus
                    /\ lastOp' = Noted("add", d)
                    /\ UNCHANGED popupOps
            /\ UNCHANGED queueVars
            /\ UNCHANGED << probes, pending, checks, msgCount, store, sessions >>
            /\ UNCHANGED << run, tabErrorCounts, pageVars >>

\* a click on disable-btn (popup.js:205-215): removeFromWhitelist reads
DisableClick ==
    /\ status # NoStatus
    /\ Cardinality(popupOps) < run.ops
    /\ popupOps' = popupOps \cup
         { [ op |-> "remove", domain |-> status.domain, permanent |-> FALSE,
             lists |-> getWhitelist(store) ] }
    /\ UNCHANGED queueVars
    /\ UNCHANGED << probes, pending, checks, msgCount, store, status, sessions,
                    lastOp >>
    /\ UNCHANGED << run, tabErrorCounts, pageVars >>

\* the chrome.storage.local.set of a whitelist operation, and its completion;
\* after an enable the popup closes
PopupWrite ==
    \E o \in popupOps :
        /\ popupOps' = popupOps \ {o}
        /\ store' = IF o.op = "add"
                    THEN AddWrite(store, o.lists, o.domain, o.permanent)
                    ELSE RemoveWrite(store, o.lists, o.domain)
        /\ status' = IF o.op = "add" THEN NoStatus ELSE status
        /\ lastOp' = Noted(o.op, o.domain)
        /\ UNCHANGED queueVars
        /\ UNCHANGED << probes, pending, checks, msgCount, sessions >>
        /\ UNCHANGED << run, tabErrorCounts, pageVars >>

----------------------------------------------------------------------------
(* Strings of the page: sequences of one-character strings, as the hosts.  *)
(* The sanitizer of the logger (logger, lines 11-28) is computed on them.  *)

LowerSeq ==
    << "a","b","c","d","e","f","g","h","i","j","k","l","m",
       "n","o","p","q","r","s","t","u","v","w","x","y","z" >>

UpperSeq ==
    << "A","B","C","D","E","F","G","H","I","J","K","L","M",
       "N","O","P","Q","R","S","T","U","V","W","X","Y","Z" >>

Letters == Range(LowerSeq) \cup Range(UpperSeq)

Alnum == Letters \cup Digits

\* \w
WordChars == Alnum \cup { "_" }

\* \s
Whitespace == { " ", "\t", "\n" }

\* String.prototype.toLowerCase on one character (the i flag of a pattern)
ToLower(c) ==
    IF c \in Range(UpperSeq)
    THEN LowerSeq[CHOOSE k \in 1..Len(UpperSeq) : UpperSeq[k] = c]
    ELSE c

MinOf(S) == CHOOSE x \in S : \A y \in S : x <= y

MaxOf(S) == CHOOSE x \in S : \A y \in S : x >= y

\* the length of the longest run of characters of class C that starts at i
RunLen(s, i, C) ==
    (CHOOSE k \in i..(Len(s) + 1) :
        /\ k = Len(s) + 1 \/ s[k] \notin C
        /\ \A j \in i..(k - 1) : s[j] \in C) - i

\* the same for the characters outside class C
RunLenNot(s, i, C) ==
    (CHOOSE k \in i..(Len(s) + 1) :
        /\ k = Len(s) + 1 \/ s[k] \in C
        /\ \A j \in i..(k - 1) : s[j] \notin C) - i

HasAt(s, i, lit) ==
    i + Len(lit) - 1 <= Len(s) /\ SubSeq(s, i, i + Len(lit) - 1) = lit

HasAtIgnoreCase(s, i, lit) ==
    /\ i + Len(lit) - 1 <= Len(s)
    /\ \A k \in 1..Len(lit) : ToLower(s[i + k - 1]) = lit[k]

\* \b between positions i - 1 and i
IsWordAt(s, i) == i \in 1..Len(s) /\ s[i] \in WordChars

WordBoundary(s, i) == IsWordAt(s, i - 1) # IsWordAt(s, i)

\* Each pattern: the position of the last character of the match that starts
\* at i, as the backtracking matcher finds it, or 0 when none starts at i.

\* /[a-zA-Z0-9._%+-]+@[a-zA-Z0-9.-]+\.[a-zA-Z]{2,}/
EmailLocal == Alnum \cup { ".", "_", "%", "+", "-" }

EmailDomain == Alnum \cup { ".", "-" }

EmailEnd(s, i) ==
    LET l  == RunLen(s, i, EmailLocal)
        at == i + l
        r  == RunLen(s, at + 1, EmailDomain)
        \* k domain characters, then the dot, then two letters or more
        ks == { k \in 1..(r - 1) :
                  /\ s[at + k + 1] = "."
                  /\ RunLen(s, at + k + 2, Letters) >= 2 }
    IN  IF l >= 1 /\ at <= Len(s) /\ s[at] = "@" /\ ks # {}
        THEN at + MaxOf(ks) + 1 + RunLen(s, at + MaxOf(ks) + 2, Letters)
        ELSE 0

\* /Bearer [a-zA-Z0-9\-\._~+/]+=*/
BearerChars == Alnum \cup { "-", ".", "_", "~", "+", "/" }

BearerLit == << "B","e","a","r","e","r"," " >>

BearerEnd(s, i) ==
    LET from == i + Len(BearerLit)
        b == RunLen(s, from, BearerChars)
    IN  IF HasAt(s, i, BearerLit) /\ b >= 1
        THEN from + b + RunLen(s, from + b, { "=" }) - 1
        ELSE 0

\* /password["\s:=]+[^"\s&,}]+/i
PasswordLit == << "p","a","s","s","w","o","r","d" >>

PasswordSep == { "\"", ":", "=" } \cup Whitespace

PasswordStop == { "\"", "&", ",", "}" } \cup Whitespace

PasswordEnd(s, i) ==
    LET from == i + Len(PasswordLit)
        a == RunLen(s, from, PasswordSep)
        \* where the value may begin: after one separator or more
        qs == { q \in (from + 1)..(from + a) : RunLenNot(s, q, PasswordStop) >= 1 }
    IN  IF HasAtIgnoreCase(s, i, PasswordLit) /\ a >= 1 /\ qs # {}
        THEN MaxOf(qs) + RunLenNot(s, MaxOf(qs), PasswordStop) - 1
        ELSE 0

\* /\b\d{13,19}\b/
CardEnd(s, i) ==
    LET d  == RunLen(s, i, Digits)
        ns == { n \in 13..19 : n <= d /\ WordBoundary(s, i + n) }
    IN  IF WordBoundary(s, i) /\ ns # {} THEN i + MaxOf(ns) - 1 ELSE 0

\* /\b(?=\S*[a-zA-Z])(?=\S*[0-9])[a-zA-Z0-9_-]{32,}\b/
KeyChars == Alnum \cup { "_", "-" }

\* the pattern with {33,} in place of {32,}
ApiKeyEndMutant(s, i) ==
    LET visible == RunLenNot(s, i, Whitespace)
        ahead(C) == \E k \in i..(i + visible - 1) : s[k] \in C
        d  == RunLen(s, i, KeyChars)
        ns == { n \in 33..d : WordBoundary(s, i + n) }
    IN  IF WordBoundary(s, i) /\ ahead(Letters) /\ ahead(Digits) /\ ns # {}
        THEN i + MaxOf(ns) - 1
        ELSE 0

ApiKeyEnd(s, i) ==
    LET visible == RunLenNot(s, i, Whitespace)
        ahead(C) == \E k \in i..(i + visible - 1) : s[k] \in C
        d  == RunLen(s, i, KeyChars)
        ns == { n \in 32..d : WordBoundary(s, i + n) }
    IN  IF WordBoundary(s, i) /\ ahead(Letters) /\ ahead(Digits) /\ ns # {}
        THEN i + MaxOf(ns) - 1
        ELSE 0

\* /eyJ[a-zA-Z0-9_-]*\.eyJ[a-zA-Z0-9_-]*\.[a-zA-Z0-9_-]*/
JwtLit == << "e","y","J" >>

JwtEnd(s, i) ==
    LET dot1 == i + 3 + RunLen(s, i + 3, KeyChars)
        dot2 == dot1 + 4 + RunLen(s, dot1 + 4, KeyChars)
    IN  IF /\ HasAt(s, i, JwtLit)
           /\ HasAt(s, dot1, << "." >>)
           /\ HasAt(s, dot1 + 1, JwtLit)
           /\ HasAt(s, dot2, << "." >>)
        THEN dot2 + RunLen(s, dot2 + 1, KeyChars)
        ELSE 0

\* the six replacements of sanitize, in the order of the code
MatchEnd(pass, s, i) ==
    CASE pass = 1 -> EmailEnd(s, i)
      [] pass = 2 -> BearerEnd(s, i)
      [] pass = 3 -> PasswordEnd(s, i)
      [] pass = 4 -> CardEnd(s, i)
      [] pass = 5 -> ApiKeyEnd(s, i)
      [] pass = 6 -> JwtEnd(s, i)

Placeholder(pass) ==
    CASE pass = 1 -> << "[","E","M","A","I","L","]" >>
      [] pass = 2 -> << "[","T","O","K","E","N","]" >>
      [] pass = 3 -> PasswordLit \o << "=","[","R","E","D","A","C","T","E","D","]" >>
      [] pass = 4 -> << "[","C","A","R","D","]" >>
      [] pass = 5 -> << "[","A","P","I","_","K","E","Y","]" >>
      [] pass = 6 -> << "[","J","W","T","]" >>

\* str.replace(/.../g, placeholder): leftmost matches, not overlapping,
\* found on the string as it was before the pass
RECURSIVE ReplaceFrom(_, _, _)
ReplaceFrom(pass, s, i) ==
    LET starts == { j \in i..Len(s) : MatchEnd(pass, s, j) # 0 }
    IN  IF starts = {} THEN SubSeq(s, i, Len(s))
        ELSE SubSeq(s, i, MinOf(starts) - 1) \o Placeholder(pass)
                 \o ReplaceFrom(pass, s, MatchEnd(pass, s, MinOf(starts)) + 1)

\* the replacement without the g flag: the first match only
ReplaceAllMutant(pass, s) ==
    LET starts == { j \in 1..Len(s) : MatchEnd(pass, s, j) # 0 }
    IN  IF starts = {} THEN s
        ELSE SubSeq(s, 1, MinOf(starts) - 1) \o Placeholder(pass)
                 \o SubSeq(s, MatchEnd(pass, s, MinOf(starts)) + 1, Len(s))

ReplaceAll(pass, s) == ReplaceFrom(pass, s, 1)

\* sanitize (logger, lines 11-28)
sanitize(str) ==
    ReplaceAll(6, ReplaceAll(5, ReplaceAll(4,
        ReplaceAll(3, ReplaceAll(2, ReplaceAll(1, str))))))

\* str.substring(0, n)
substring0(str, n) == SubSeq(str, 1, IF Len(str) < n THEN Len(str) ELSE n)

\* Strings given to sanitize: up to MaxPieces pieces, one after the other
t_email == << "a","@","b",".","c","o" >>

t_bearer == BearerLit \o << "t","0" >>

t_password == PasswordLit \o << "=" >>

t_card == << "4","1","1","1","1","1","1","1","1","1","1","1","1" >>

t_key ==
    << "a","1","b","2","c","3","d","4","e","5","f","6","a","7","b","8",
       "c","9","d","0","e","1","f","2","a","3","b","4","c","5","d","6" >>

t_jwt == << "e","y","J","a",".","e","y","J","b",".","c" >>

Pieces ==
    { t_email, t_bearer, t_password, t_card, t_key, t_jwt,
      << " " >>, << "x" >>, << "_" >>, << "." >>, << "@" >> }

RECURSIVE Concat(_)
Concat(ps) == IF ps = << >> THEN << >> ELSE Head(ps) \o Concat(Tail(ps))

Texts == { Concat(ps) : ps \in UNION { [1..n -> Pieces] : n \in 1..MaxPieces } }

NotSanitized == [ runs |-> 0, out |-> << >> ]

\* sanitize(message), as the console overrides and the listeners call it
\* (logger, lines 72, 85, 94, 115)
SanitizeCall ==
    /\ clean.runs = 0
    /\ clean' = [ runs |-> 1, out |-> sanitize(rawText) ]
    /\ UNCHANGED << rawText, loggerVars, discoveryVars, hookVars, xhrVars >>
    /\ UNCHANGED backgroundVars

\* sanitize(String(data.message)) of send, on the message that was
\* sanitized by its caller (logger, line 41)
SendSanitize ==
    /\ clean.runs = 1
    /\ clean' = [ runs |-> 2, out |-> sanitize(clean.out) ]
    /\ UNCHANGED << rawText, loggerVars, discoveryVars, hookVars, xhrVars >>
    /\ UNCHANGED backgroundVars

----------------------------------------------------------------------------
(* The logger in the page's world (logger, lines 30-158) *)

MSG_LIMIT == 2000

URL_LIMIT == 200

BODY_LIMIT == 500

s_userFailed == << "u","s","e","r"," ","f","a","i","l","e","d" >>
s_x == << "x" >>
s_stack == << "E","r","r","o","r",":"," ","x" >>
s_secret == << "p","a","s","s","w","o","r","d","=","h","u","n","t","e","r","2" >>
s_json == << "{","\"","u","\"",":","\"","a","@","b",".","c","o","\"","}" >>
s_null == << "n","u","l","l" >>
s_undefined == << "u","n","d","e","f","i","n","e","d" >>
s_braces == << "{","}" >>
s_href == << "h","t","t","p",":","/","/" >> \o h_localhost5173 \o << "/" >>
s_api == << "/","a","p","i" >>
s_apiSecret == << "/","u","?","e","=","a","@","b",".","c","o" >>
s_GET == << "G","E","T" >>
s_POST == << "P","O","S","T" >>
s_failed == << "F","a","i","l","e","d"," ","t","o"," ","f","e","t","c","h" >>

\* a JavaScript value handed to console.error / console.warn: a string, an
\* Error (message and stack), a plain object (text is its JSON), an object
\* JSON.stringify throws on (a cycle), null, undefined
Value(kind, text, stack) == [ kind |-> kind, text |-> text, stack |-> stack ]

ConsoleArgs ==
    { << Value("string", s_userFailed, << >>), Value("error", s_x, s_stack) >>,
      << Value("string", s_secret, << >>) >>,
      << Value("object", s_json, << >>) >>,
      << Value("string", s_userFailed, << >>), Value("cyclic", << >>, << >>) >>,
      << Value("null", << >>, << >>), Value("undefined", << >>, << >>) >>,
      << >> }

Thrown == [ ok |-> FALSE, text |-> << >> ]

Returned(text) == [ ok |-> TRUE, text |-> text ]

\* JSON.stringify(a) for a value with typeof a === 'object'
JSONstringify(a) ==
    CASE a.kind = "cyclic" -> Thrown
      [] a.kind = "null" -> Returned(s_null)
      [] a.kind = "error" -> Returned(s_braces)
      [] OTHER -> Returned(a.text)

\* String(a)
StringOf(a) ==
    CASE a.kind = "undefined" -> Returned(s_undefined)
      [] OTHER -> Returned(a.text)

IsObject(a) == a.kind \in { "object", "cyclic", "null", "error" }

\* the callback of args.map in the two overrides (logger, lines 65-69, 83)
ArgText(fn, a) ==
    IF fn = "error" /\ a.kind = "error"
    THEN Returned(a.text \o << "\n" >> \o a.stack)
    ELSE IF IsObject(a) THEN JSONstringify(a)
    ELSE StringOf(a)

RECURSIVE Join(_, _)
Join(texts, sep) ==
    IF texts = << >> THEN << >>
    ELSE IF Len(texts) = 1 THEN texts[1]
    ELSE texts[1] \o sep \o Join(Tail(texts), sep)

\* args.map(...).join(' ')
DeriveMessage(fn, args) ==
    IF \E i \in 1..Len(args) : ~ArgText(fn, args[i]).ok THEN Thrown
    ELSE Returned(Join([ i \in 1..Len(args) |-> ArgText(fn, args[i]).text ],
                       << " " >>))

\* the object given to send, and the payload send builds from it (logger,
\* lines 39-48); line holds the number when there is one; column and
\* timestamp are not carried
Data(message, severity, file, line, responseBody) ==
    [ message |-> message, severity |-> severity, file |-> file, line |-> line,
      responseBody |-> responseBody ]

Payload(kind, type, message, severity, file, line, url) ==
    [ kind |-> kind, type |-> type, message |-> message, severity |-> severity,
      file |-> file, line |-> line, url |-> url ]

send(type, data) ==
    Payload("record", type,
            IF data.message # << >>
            THEN substring0(sanitize(data.message), MSG_LIMIT) ELSE << >>,
            IF data.severity # "" THEN data.severity ELSE "error",
            data.file, data.line, substring0(s_href, URL_LIMIT))

\* window.postMessage({ source: 'FIXONCE', payload }, '*') (logger, 50-53)
WindowEvent(from, kind, source, payload) ==
    [ from |-> from, data |-> [ kind |-> kind, source |-> source,
                                payload |-> payload ] ]

Posted(payload) == WindowEvent("self", "object", "FIXONCE", payload)

\* one call of the overridden console.error / console.warn (logger, lines
\* 62-76, 80-89): the calls of the original, the steps in their order, whether
\* the call threw into its caller, and what send posted
consoleOverrideMutant(fn, args) ==
    LET m == DeriveMessage(fn, args)
    IN  IF m.ok
        THEN [ fn |-> fn, args |-> args, origCalls |-> << args >>,
               steps |-> << "derive", "send", "orig" >>, threw |-> FALSE,
               posted |-> << send(IF fn = "error" THEN "console.error"
                                  ELSE "console.warn",
                                  Data(sanitize(m.text),
                                       IF fn = "error" THEN "error" ELSE "warning",
                                       << >>, << >>, << >>)) >> ]
        ELSE [ fn |-> fn, args |-> args, origCalls |-> << >>,
               steps |-> << "derive" >>, threw |-> TRUE, posted |-> << >> ]
consoleOverride(fn, args) ==
    LET m == DeriveMessage(fn, args)
    IN  IF m.ok
        THEN [ fn |-> fn, args |-> args, origCalls |-> << args >>,
               steps |-> << "orig", "derive", "send" >>, threw |-> FALSE,
               posted |-> << send(IF fn = "error" THEN "console.error"
                                  ELSE "console.warn",
                                  Data(sanitize(m.text),
                                       IF fn = "error" THEN "error" ELSE "warning",
                                       << >>, << >>, << >>)) >> ]
        ELSE [ fn |-> fn, args |-> args, origCalls |-> << args >>,
               steps |-> << "orig", "derive" >>, threw |-> FALSE,
               posted |-> << >> ]

NoCall == [ fn |-> "none" ]

DigitSeq == << "0","1","2","3","4","5","6","7","8","9" >>

\* the decimal digits of a number in a template literal
RECURSIVE NumStr(_)
NumStr(n) ==
    IF n < 10 THEN << DigitSeq[n + 1] >>
    ELSE NumStr(n \div 10) \o << DigitSeq[(n % 10) + 1] >>

\* the calls of the wrapped fetch: the url, and the method of the options
\* (empty when there is none)
FetchCalls ==
    { [ url |-> s_api, method |-> << >> ],
      [ url |-> s_apiSecret, method |-> s_POST ] }

Statuses == { 399, 400, 499, 500 }

Bodies == { << >>, s_secret }

\* what the unwrapped fetch may reject with: the TypeError of a network
\* failure, or an abort reason, which may be null
NetworkError == [ kind |-> "TypeError", message |-> s_failed ]

NullReason == [ kind |-> "null", message |-> << >> ]

\* reading a property of null throws this
NullTypeError == [ kind |-> "TypeError", message |-> s_null ]

Rejections == { NetworkError, NullReason }

\* args[1]?.method || 'GET'
MethodOf(call) == IF call.method # << >> THEN call.method ELSE s_GET

\* response.status >= 500 ? 'critical' : 'error' (logger, line 141)
HttpSeverityMutant(code) == IF code > 500 THEN "critical" ELSE "error"
HttpSeverity(code) == IF code >= 500 THEN "critical" ELSE "error"

\* the body text kept for the record (logger, lines 131-137, 144)
ErrorBody(body) ==
    sanitize(IF Len(body) > BODY_LIMIT
             THEN substring0(body, BODY_LIMIT) \o << ".",".","." >> ELSE body)

\* send('http.error', ...) (logger, lines 139-145); the payload has no field
\* for responseBody
HttpErrorRecord(call, code, body) ==
    send("http.error",
         Data(<< "H","T","T","P"," " >> \o NumStr(code) \o << ":"," " >>
                  \o MethodOf(call) \o << " " >> \o call.url,
              HttpSeverity(code), call.url, << code >>, body))

\* send('http.network', ...) (logger, lines 151-155)
NetworkErrorRecord(call, err) ==
    send("http.network",
         Data(<< "N","e","t","w","o","r","k"," ","E","r","r","o","r",":"," " >>
                  \o MethodOf(call) \o << " " >> \o call.url
                  \o << " ","-"," " >> \o err.message,
              "critical", call.url, << >>, << >>))

NoFetch == [ outcome |-> "none" ]

\* one call of console.error / console.warn by a script of the page
ConsoleCall ==
    \E fn \in { "error", "warn" }, args \in pageRun.console :
        LET c == consoleOverride(fn, args)
        IN  /\ pageEvents < pageRun.events
            /\ pageEvents' = pageEvents + 1
            /\ lastCall' = c
            /\ windowMsgs' = windowMsgs
                   \o [ i \in 1..Len(c.posted) |-> Posted(c.posted[i]) ]
            /\ UNCHANGED << channel, handled, relayed, fetches, lastFetch,
                            pageRun, toolVars >>
            /\ UNCHANGED backgroundVars

\* a script of the page calls the wrapped fetch: the unwrapped fetch is
\* called and awaited (logger, lines 122-127)
FetchCall ==
    \E call \in pageRun.calls :
        /\ pageEvents < pageRun.events
        /\ pageEvents' = pageEvents + 1
        /\ fetches' = fetches \cup
               { [ id |-> pageEvents + 1, call |-> call, phase |-> "fetch",
                   status |-> 0 ] }
        /\ UNCHANGED << windowMsgs, channel, handled, relayed, lastCall,
                        lastFetch, pageRun, toolVars >>
        /\ UNCHANGED backgroundVars

Settled(f, outcome, code, original, thrown, emitted) ==
    [ outcome |-> outcome, id |-> f.id, call |-> f.call, status |-> code,
      original |-> original, thrown |-> thrown, emitted |-> emitted ]

\* the unwrapped fetch settles (logger, lines 127-130, 148-157): a response
\* below 400 is returned, one from 400 on has its body read first, a
\* rejection is recorded and rethrown; reading err.message of a null
\* rejection throws inside the catch block
FetchSettle ==
    \E f \in fetches :
        /\ f.phase = "fetch"
        /\ \/ \E code \in Statuses :
                IF code >= 400
                THEN /\ fetches' = (fetches \ {f}) \cup
                           { [f EXCEPT !.phase = "body", !.status = code] }
                     /\ UNCHANGED << windowMsgs, lastFetch >>
                ELSE /\ fetches' = fetches \ {f}
                     /\ lastFetch' = Settled(f, "resolved", code, NullReason,
                                             NullReason, << >>)
                     /\ UNCHANGED windowMsgs
           \/ \E err \in Rejections :
                /\ fetches' = fetches \ {f}
                /\ IF err.kind = "null"
                   THEN /\ lastFetch' = Settled(f, "rejected", 0, err,
                                                NullTypeError, << >>)
                        /\ UNCHANGED windowMsgs
                   ELSE LET rec == NetworkErrorRecord(f.call, err)
                        IN  /\ lastFetch' = Settled(f, "rejected", 0, err, err,
                                                    << rec >>)
                            /\ windowMsgs' = Append(windowMsgs, Posted(rec))
        /\ UNCHANGED << channel, handled, relayed, lastCall, pageEvents,
                        pageRun, toolVars >>
        /\ UNCHANGED backgroundVars

\* clone.text() of a response from 400 on settles, with a text or by throwing
\* (logger, lines 131-148): the record is sent and the response returned; or
\* the body never finishes arriving, and the await of line 135 never resumes
FetchBody ==
    \E f \in fetches :
        /\ f.phase = "body"
        /\ \/ \E read \in { Returned(b) : b \in Bodies } \cup { Thrown } :
                LET rec == HttpErrorRecord(f.call, f.status, ErrorBody(read.text))
                IN  /\ fetches' = fetches \ {f}
                    /\ lastFetch' = Settled(f, "resolved", f.status, NullReason,
                                            NullReason, << rec >>)
                    /\ windowMsgs' = Append(windowMsgs, Posted(rec))
           \/ /\ fetches' = (fetches \ {f}) \cup { [f EXCEPT !.phase = "stalled"] }
              /\ UNCHANGED << windowMsgs, lastFetch >>
        /\ UNCHANGED << channel, handled, relayed, lastCall, pageEvents,
                        pageRun, toolVars >>
        /\ UNCHANGED backgroundVars

----------------------------------------------------------------------------
(* The wrapped XMLHttpRequest.prototype.open / send (logger, lines 160-198) *)

\* the calls of open: the method and the url
XhrCalls ==
    { [ url |-> s_api, method |-> s_GET ],
      [ url |-> s_apiSecret, method |-> s_POST ] }

NewXhr ==
    [ listeners |-> 0, sent |-> FALSE, call |-> [ url |-> << >>, method |-> << >> ] ]

NoXhrEvent == [ outcome |-> "none" ]

\* send('http.network', ...) of the error listener (logger, lines 190-194)
XhrNetworkRecord(call) ==
    send("http.network",
         Data(<< "N","e","t","w","o","r","k"," ","E","r","r","o","r",":"," " >>
                  \o call.method \o << " " >> \o call.url,
              "critical", call.url, << >>, << >>))

\* what the load listeners of the object post for one load event: each
\* listener that send added runs once (logger, lines 171-187)
OnLoad(x, code, body) ==
    IF code >= 400
    THEN [ i \in 1..x.listeners |-> HttpErrorRecord(x.call, code, ErrorBody(body)) ]
    ELSE << >>

\* what the error listeners post for one error event (logger, lines 189-195)
OnError(x) == [ i \in 1..x.listeners |-> XhrNetworkRecord(x.call) ]

XhrEvent(outcome, x, code, emitted) ==
    [ outcome |-> outcome, call |-> x.call, status |-> code,
      sends |-> x.listeners, emitted |-> emitted ]

\* a script of the page calls open and send, on a new XMLHttpRequest or on
\* the object it used before: open keeps the method and the url, send adds a
\* load and an error listener and calls the original send
XhrSend ==
    \E call \in XhrCalls, fresh \in BOOLEAN :
        /\ pageEvents < pageRun.events
        /\ ~xhr.sent
        /\ pageEvents' = pageEvents + 1
        /\ xhr' = [ listeners |-> (IF fresh THEN 0 ELSE xhr.listeners) + 1,
                    sent |-> TRUE, call |-> call ]
        /\ UNCHANGED << windowMsgs, channel, handled, relayed, lastCall, fetches,
                        lastFetch, pageRun, lastXhr >>
        /\ UNCHANGED << sanitizerVars, discoveryVars, hookVars >>
        /\ UNCHANGED backgroundVars

\* the response has arrived: the load event of the object
XhrLoad ==
    \E code \in Statuses, body \in Bodies :
        LET recs == OnLoad(xhr, code, body)
        IN  /\ xhr.sent
            /\ xhr' = [xhr EXCEPT !.sent = FALSE]
            /\ lastXhr' = XhrEvent("load", xhr, code, recs)
            /\ windowMsgs' = windowMsgs \o [ i \in 1..Len(recs) |-> Posted(recs[i]) ]
            /\ UNCHANGED << channel, handled, relayed, lastCall, fetches, lastFetch,
                            pageEvents, pageRun >>
            /\ UNCHANGED << sanitizerVars, discoveryVars, hookVars >>
            /\ UNCHANGED backgroundVars

\* the transport failed: the error event of the object
XhrError ==
    LET recs == OnError(xhr)
    IN  /\ xhr.sent
        /\ xhr' = [xhr EXCEPT !.sent = FALSE]
        /\ lastXhr' = XhrEvent("error", xhr, 0, recs)
        /\ windowMsgs' = windowMsgs \o [ i \in 1..Len(recs) |-> Posted(recs[i]) ]
        /\ UNCHANGED << channel, handled, relayed, lastCall, fetches, lastFetch,
                        pageEvents, pageRun >>
        /\ UNCHANGED << sanitizerVars, discoveryVars, hookVars >>
        /\ UNCHANGED backgroundVars

----------------------------------------------------------------------------
(* The minimal interceptors: injected.js (lines 17-51) and the v3.0 logger *)
(* of the MAIN world (background.js:379-391)                               *)

Interceptors == { "injected.js", "v3.0" }

\* the values a script hands to console.error / console.warn
LegacyValues ==
    { Value("string", s_userFailed, << >>), Value("error", s_x, s_stack),
      Value("object", s_json, << >>), Value("cyclic", << >>, << >>),
      Value("null", << >>, << >>), Value("undefined", << >>, << >>) }

LegacyArgs == UNION { [ 1..n -> LegacyValues ] : n \in 0..MaxLegacyArgs }

\* args.map(a => typeof a === "object" ? JSON.stringify(a) : String(a))
\* .join(" "): the callback of the logger's console.warn
LegacyDerive(args) == DeriveMessage("warn", args)

V3_LIMIT == 60

\* what the interceptor hands on: injected.js POSTs type, severity and message
\* (sendLog, lines 7-15, 24-30); the v3.0 logger writes the first 60 characters
\* and a one-letter severity into its element (send, background.js:364-368)
LegacySent(by, fn, message) ==
    IF by = "injected.js"
    THEN [ type |-> IF fn = "error" THEN "console.error" ELSE "console.warn",
           severity |-> IF fn = "error" THEN "error" ELSE "warning",
           message |-> message ]
    ELSE [ m |-> substring0(message, V3_LIMIT),
           s |-> IF fn = "error" THEN "e" ELSE "w" ]

\* one call of the overridden console.error / console.warn: the message is
\* derived, handed on, and then the original is called; nothing catches
legacyOverride(by, fn, args) ==
    LET m == LegacyDerive(args)
    IN  IF m.ok
        THEN [ by |-> by, fn |-> fn, args |-> args, origCalls |-> << args >>,
               steps |-> << "derive", "send", "orig" >>, threw |-> FALSE,
               posted |-> << LegacySent(by, fn, m.text) >> ]
        ELSE [ by |-> by, fn |-> fn, args |-> args, origCalls |-> << >>,
               steps |-> << "derive" >>, threw |-> TRUE, posted |-> << >> ]

\* a script of a page that runs one of the two interceptors calls
\* console.error / console.warn
LegacyConsoleCall ==
    \E by \in Interceptors, fn \in { "error", "warn" }, args \in pageRun.console :
        /\ pageEvents < pageRun.events
        /\ pageEvents' = pageEvents + 1
        /\ lastCall' = legacyOverride(by, fn, args)
        /\ UNCHANGED << windowMsgs, channel, handled, relayed, fetches, lastFetch,
                        pageRun, toolVars >>
        /\ UNCHANGED backgroundVars

----------------------------------------------------------------------------
(* The bridge in the isolated world (bridge, lines 357-376) and the way of *)
(* its messages into the background                                        *)

NoPayload(kind) == Payload(kind, "", << >>, "", << >>, << >>, << >>)

RawPayload ==
    Payload("record", "console.error", s_secret, "error", << >>, << >>, s_href)

\* what a script of the page, or a frame in it, may post to the window
ForgedEvents ==
    { WindowEvent("frame", "object", "FIXONCE", RawPayload),
      WindowEvent("self", "null", "none", NoPayload("undefined")),
      WindowEvent("self", "string", "none", NoPayload("undefined")),
      WindowEvent("self", "object", "none", RawPayload),
      WindowEvent("self", "object", "OTHER", RawPayload),
      WindowEvent("self", "object", "FIXONCE", NoPayload("undefined")),
      WindowEvent("self", "object", "FIXONCE", NoPayload("null")),
      WindowEvent("self", "object", "FIXONCE", NoPayload("emptyString")),
      WindowEvent("self", "object", "FIXONCE", RawPayload) }

PagePost ==
    \E ev \in pageRun.forged :
        /\ pageEvents < pageRun.events
        /\ pageEvents' = pageEvents + 1
        /\ windowMsgs' = Append(windowMsgs, ev)
        /\ UNCHANGED << channel, handled, relayed, lastCall, fetches, lastFetch,
                        pageRun, toolVars >>
        /\ UNCHANGED backgroundVars

\* !value
Falsy(kind) == kind \in { "undefined", "null", "emptyString" }

\* the three tests of the listener (bridge, lines 361-365)
bridgeAcceptsMutant(ev) ==
    /\ ~Falsy(ev.data.kind) /\ ev.data.source = "FIXONCE"
    /\ ~Falsy(ev.data.payload.kind)
bridgeAccepts(ev) ==
    /\ ev.from = "self"
    /\ ~Falsy(ev.data.kind) /\ ev.data.source = "FIXONCE"
    /\ ~Falsy(ev.data.payload.kind)

\* the channel to the background after the try block (bridge, lines
\* 367-374): chrome.runtime.sendMessage is called once; it hands the message
\* over ("sent"), throws ("threw", the catch block is empty) or returns a
\* promise that rejects ("rejected", nothing awaits it)
RelayedMutant(ch, msg, outcome) == Append(ch, msg)
Relayed(ch, msg, outcome) == IF outcome = "sent" THEN Append(ch, msg) ELSE ch

\* the listener of the bridge runs on the oldest window message
BridgeMessage ==
    /\ windowMsgs # << >>
    /\ LET ev == Head(windowMsgs)
           hop == Len(handled) + 1
       IN  /\ windowMsgs' = Tail(windowMsgs)
           /\ IF bridgeAccepts(ev)
              THEN \E outcome \in { "sent", "threw", "rejected" } :
                       /\ channel' = Relayed(channel,
                              [ hop |-> hop, payload |-> ev.data.payload ],
                              outcome)
                       /\ handled' = Append(handled,
                              [ event |-> ev, outcome |-> outcome ])
              ELSE /\ channel' = channel
                   /\ handled' = Append(handled,
                          [ event |-> ev, outcome |-> "discarded" ])
    /\ UNCHANGED << relayed, lastCall, fetches, lastFetch, pageEvents, pageRun, toolVars >>
    /\ UNCHANGED backgroundVars

\* the onMessage listener of the background receives the oldest message of
\* the bridge (background.js:224-257); the record queued for it is the
\* payload of the message with the tab's fields added (background.js:237-242)
RelayDeliver ==
    /\ channel # << >>
    /\ channel' = Tail(channel)
    /\ IF ~Falsy(Head(channel).payload.kind)
       THEN /\ \E host \in run.senders : LogErrorFrom(host)
            /\ relayed' = relayed \cup
                   { [ id |-> msgCount + 1, hop |-> Head(channel).hop,
                       payload |-> Head(channel).payload ] }
       ELSE /\ UNCHANGED backgroundVars
            /\ relayed' = relayed
    /\ UNCHANGED << windowMsgs, handled, lastCall, fetches, lastFetch,
                    pageEvents, pageRun, toolVars >>

----------------------------------------------------------------------------
(* The Node.js hook (hooks/post_tool_use.sh, lines 48-256) *)

MAX_ERRORS_PER_MINUTE == 10

RATE_WINDOW == 60000

\* the advances of the clock between two events, in ms
TickSizes == { 1, RATE_WINDOW }

HookHandlers == { "console.error", "uncaughtException", "unhandledRejection" }

\* the while loop of rateLimitCheck: timestamps older than 60 seconds are
\* shifted off the front (hook, lines 80-82)
RECURSIVE DropOld(_, _)
DropOld(stamps, t) ==
    IF stamps # << >> /\ t - Head(stamps) > RATE_WINDOW
    THEN DropOld(Tail(stamps), t)
    ELSE stamps

\* rateLimitCheck (hook, lines 76-91): what it returns, and errorTimestamps
\* after it
rateLimitCheckMutant(stamps, t) ==
    LET kept == DropOld(stamps, t)
    IN  IF Len(kept) > MAX_ERRORS_PER_MINUTE
        THEN [ ok |-> FALSE, stamps |-> kept ]
        ELSE [ ok |-> TRUE, stamps |-> Append(kept, t) ]
rateLimitCheck(stamps, t) ==
    LET kept == DropOld(stamps, t)
    IN  IF Len(kept) >= MAX_ERRORS_PER_MINUTE
        THEN [ ok |-> FALSE, stamps |-> kept ]
        ELSE [ ok |-> TRUE, stamps |-> Append(kept, t) ]

\* the first half of  if (isSending || !rateLimitCheck())  in the three
\* handlers (hook, lines 157, 201, 236): rateLimitCheck is not called then
hookSkipsMutant(sending) == FALSE
hookSkips(sending) == sending

\* sendError (hook, lines 96-100): does it go on to call fetch, for a handler
\* whose rateLimitCheck returned ok
sendError(sending, ok) == ok /\ ~sending

\* one of the three handlers runs (hook, lines 153-193, 198-228, 233-256):
\* after the original console.error, if (isSending || !rateLimitCheck())
\* it returns, otherwise it builds the payload and calls sendError, which
\* sets isSending and calls fetch. The uncaughtException handler throws when
\* it does not send, which ends the process.
HookError ==
    \E handler \in HookHandlers :
        /\ hookEvents.alive
        /\ hookEvents.errors < MaxHookErrors
        /\ IF hookSkips(isSending)
           THEN /\ UNCHANGED << errorTimestamps, isSending, sendLog >>
                /\ hookEvents' = [hookEvents EXCEPT
                       !.errors = @ + 1,
                       !.alive = handler # "uncaughtException"]
           ELSE LET check == rateLimitCheck(errorTimestamps, now)
                    sends == sendError(isSending, check.ok)
                IN  /\ errorTimestamps' = check.stamps
                    /\ isSending' = (isSending \/ sends)
                    /\ sendLog' = IF sends THEN Append(sendLog, now) ELSE sendLog
                    /\ hookEvents' = [hookEvents EXCEPT
                           !.errors = @ + 1,
                           !.flying = @ + (IF sends THEN 1 ELSE 0),
                           !.alive = check.ok \/ handler # "uncaughtException"]
        /\ UNCHANGED now
        /\ UNCHANGED << loggerVars, sanitizerVars, discoveryVars, xhrVars >>
        /\ UNCHANGED backgroundVars

\* the fetch of sendError settles, is rejected or is aborted after 2 seconds:
\* finally { isSending = false } (hook, lines 101-118)
SendErrorDone ==
    /\ hookEvents.alive
    /\ hookEvents.flying > 0
    /\ isSending' = FALSE
    /\ hookEvents' = [hookEvents EXCEPT !.flying = @ - 1]
    /\ UNCHANGED << now, errorTimestamps, sendLog >>
    /\ UNCHANGED << loggerVars, sanitizerVars, discoveryVars, xhrVars >>
    /\ UNCHANGED backgroundVars

\* time passes
Tick ==
    \E d \in TickSizes :
        /\ hookEvents.alive
        /\ hookEvents.ticks < MaxTicks
        /\ now' = now + d
        /\ hookEvents' = [hookEvents EXCEPT !.ticks = @ + 1]
        /\ UNCHANGED << errorTimestamps, isSending, sendLog >>
        /\ UNCHANGED << loggerVars, sanitizerVars, discoveryVars, xhrVars >>
        /\ UNCHANGED backgroundVars

----------------------------------------------------------------------------
(* Specifications *)

InitBackground ==
    /\ tabErrorCounts = [ h \in Hosts \cup { NullDomain } |-> 0 ]
    /\ errorQueue = << >>
    /\ isServerAvailable = TRUE
    /\ flushTimer = FALSE
    /\ timeouts = 0
    /\ inflight = {}
    /\ acked = {}
    /\ ackedTwice = {}
    /\ probes = [ config |-> 0, handshake |-> 0 ]
    /\ pending = << >>
    /\ checks = << >>
    /\ msgCount = 0
    /\ streak = NoStreak
    /\ lastFlush = NoFlush

InitPopup ==
    /\ lastOp = NoOp
    /\ popupOps = {}
    /\ status = NoStatus
    /\ sessions = 0

\* sanitize is not called on its own
InitNoSanitizer ==
    /\ rawText = << >>
    /\ clean = NotSanitized

\* the state of the module when it is loaded (background.js:9-13); no call of
\* discoverServer is made
InitNoDiscovery ==
    /\ ACTIVE_PORT = 5000
    /\ endpoints = [ u \in EndpointNames |-> 5000 ]
    /\ pingAnswers = [ p \in Range(PORT_RANGE) |-> "throw" ]
    /\ discoveries = [ began |-> 0, running |-> {}, limit |-> MaxDiscoveries ]
    /\ lastDiscovery = NoDiscovery

\* the Node.js hook when it is loaded (hook, lines 69-70); nothing is
\* reported to it
InitHook ==
    /\ now = 0
    /\ errorTimestamps = << >>
    /\ isSending = FALSE
    /\ sendLog = << >>

InitNoHook ==
    /\ InitHook
    /\ hookEvents = [ errors |-> 0, ticks |-> 0, alive |-> FALSE, flying |-> 0 ]

\* a new XMLHttpRequest object: the wrapped send was not called on it
InitXhr ==
    /\ xhr = NewXhr
    /\ lastXhr = NoXhrEvent

InitNoTools == InitNoSanitizer /\ InitNoDiscovery /\ InitNoHook /\ InitXhr

\* nothing has happened on the page
InitIdlePage ==
    /\ windowMsgs = << >>
    /\ channel = << >>
    /\ handled = << >>
    /\ relayed = {}
    /\ lastCall = NoCall
    /\ fetches = {}
    /\ lastFetch = NoFetch
    /\ pageEvents = 0

\* a page on which the logger and the bridge run
InitPage == InitIdlePage /\ InitNoTools

\* no page sends through the bridge
InitNoPage ==
    /\ InitPage
    /\ pageRun = [ events |-> 0, console |-> {}, calls |-> {}, forged |-> {} ]

FreshStore == [ whitelist |-> Undefined, sessionWhitelist |-> Undefined ]

\* the admission of LOG_ERROR messages while the popup changes the lists
\* (the failing POSTs are in SpecQueue)
Init ==
    /\ InitBackground /\ InitPopup /\ InitNoPage
    /\ store = FreshStore
    /\ run = [ msgs |-> MaxRecords, posts |-> MaxInflight,
               senders |-> { NullDomain, h_localhost5173, h_example },
               tabs |-> { h_example }, ops |-> MaxPopupOps, history |-> FALSE ]

Next ==
    \/ LogError \/ StorageRead \/ Resolve
    \/ TimerFire \/ FlushOk
    \/ UpdateUI \/ EnableClick \/ DisableClick \/ PopupWrite

Spec == Init /\ [][Next]_vars

\* the popup changes the lists of one origin while its tab sends LOG_ERROR
\* messages; the origin is unlisted at first, or in the permanent list
InitCapture ==
    /\ InitBackground /\ InitPopup /\ InitNoPage
    /\ store \in { FreshStore,
                    [ whitelist |-> << h_example >>, sessionWhitelist |-> Undefined ] }
    /\ run = [ msgs |-> MaxCaptureRecords, posts |-> 0,
               senders |-> { h_example }, tabs |-> { h_example },
               ops |-> MaxPopupOps, history |-> TRUE ]

NextCapture ==
    \/ LogError \/ StorageRead \/ Resolve
    \/ UpdateUI \/ EnableClick \/ DisableClick \/ PopupWrite

SpecCapture == InitCapture /\ [][NextCapture]_vars

\* the batching queue filling up, fed by one auto-allowed tab
InitBatch ==
    /\ InitBackground /\ InitPopup /\ InitNoPage
    /\ store = FreshStore
    /\ run = [ msgs |-> MaxBatchRecords, posts |-> MaxBatchInflight, senders |-> { h_localhost5173 },
               tabs |-> {}, ops |-> MaxPopupOps, history |-> FALSE ]

NextBatch ==
    \/ LogError \/ TimerFire \/ FlushOk
    \/ CheckServer \/ CheckServerDone \/ HandshakeDone

SpecBatch == InitBatch /\ [][NextBatch]_vars

\* the batching queue with its flushes and the reachability probes
InitQueue ==
    /\ InitBackground /\ InitPopup /\ InitNoPage
    /\ store = FreshStore
    /\ run = [ msgs |-> MaxQueueRecords, posts |-> MaxInflight, senders |-> { h_localhost5173 },
               tabs |-> {}, ops |-> MaxPopupOps, history |-> FALSE ]

NextQueue ==
    \/ LogError
    \/ TimerFire \/ FlushOk \/ FlushFail
    \/ CheckServer \/ CheckServerDone \/ HandshakeDone

SpecQueue == InitQueue /\ [][NextQueue]_vars

\* the batching queue and the badge counts, while the tab loads pages
NextBadge ==
    \/ LogError
    \/ TimerFire \/ FlushOk \/ FlushFail
    \/ TabComplete

SpecBadge == InitQueue /\ [][NextBadge]_vars

\* the same while the background keeps running: an armed timer fires, a POST
\* and a probe are answered, setInterval keeps calling checkServer
SpecQueueLive ==
    /\ SpecQueue
    /\ WF_vars(TimerFire)
    /\ WF_vars(FlushOk \/ FlushFail)
    /\ WF_vars(CheckServer)
    /\ WF_vars(CheckServerDone)
    /\ WF_vars(HandshakeDone)

\* the popup alone, on any stored lists over two hosts
ListHosts == { h_localhost5173, h_example }

InitLists ==
    /\ InitBackground /\ InitPopup /\ InitNoPage
    /\ store \in [ whitelist : StoredLists(ListHosts),
                   sessionWhitelist : StoredLists(ListHosts) ]
    /\ run = [ msgs |-> 0, posts |-> 0, senders |-> {}, tabs |-> ListHosts, ops |-> MaxPopupOps, history |-> FALSE ]

NextLists == UpdateUI \/ EnableClick \/ DisableClick \/ PopupWrite

SpecLists == InitLists /\ [][NextLists]_vars

\* two popup pages open at a time (one per browser window): an operation of
\* the one is between its read and its write while the other one starts
InitPopups ==
    /\ InitBackground /\ InitPopup /\ InitNoPage
    /\ store \in [ whitelist : StoredLists(ListHosts),
                   sessionWhitelist : StoredLists(ListHosts) ]
    /\ run = [ msgs |-> 0, posts |-> 0, senders |-> {}, tabs |-> ListHosts,
               ops |-> MaxOverlappingOps, history |-> FALSE ]

SpecPopups == InitPopups /\ [][NextLists]_vars

\* the popup on tabs of several kinds of origin: a page with an empty host
\* (a file: URL), an unlisted site, a site on a dev port
AgreeHosts == { h_empty, h_example, h_example3000 }

InitAgree ==
    /\ InitBackground /\ InitPopup /\ InitNoPage
    /\ store = FreshStore
    /\ run = [ msgs |-> 0, posts |-> 0, senders |-> {}, tabs |-> AgreeHosts,
               ops |-> MaxPopupOps, history |-> FALSE ]

SpecAgree == InitAgree /\ [][NextLists]_vars

\* the popup and the session starts, on a fresh profile
InitSession ==
    /\ InitBackground /\ InitPopup /\ InitNoPage
    /\ store = FreshStore
    /\ run = [ msgs |-> 0, posts |-> 0, senders |-> {}, tabs |-> { h_example, h_aio }, ops |-> MaxPopupOps, history |-> FALSE ]

NextSession ==
    \/ UpdateUI \/ EnableClick \/ DisableClick \/ PopupWrite
    \/ SessionStart \/ HandshakeDone

SpecSession == InitSession /\ [][NextSession]_vars

\* the logger's wrapped XMLHttpRequest, on an object that a script reuses
InitXhrRun ==
    /\ InitBackground /\ InitPopup /\ InitPage
    /\ store = FreshStore
    /\ run = [ msgs |-> 0, posts |-> 0, senders |-> {}, tabs |-> {},
               ops |-> MaxPopupOps, history |-> FALSE ]
    /\ pageRun = [ events |-> MaxPageEvents, console |-> {}, calls |-> {},
                   forged |-> {} ]

NextXhr == XhrSend \/ XhrLoad \/ XhrError

SpecXhr == InitXhrRun /\ [][NextXhr]_vars

\* a page that runs injected.js or the v3.0 logger
InitLegacy ==
    /\ InitBackground /\ InitPopup /\ InitPage
    /\ store = FreshStore
    /\ run = [ msgs |-> 0, posts |-> 0, senders |-> {}, tabs |-> {},
               ops |-> MaxPopupOps, history |-> FALSE ]
    /\ pageRun = [ events |-> MaxPageEvents, console |-> LegacyArgs, calls |-> {},
                   forged |-> {} ]

NextLegacy == LegacyConsoleCall

SpecLegacy == InitLegacy /\ [][NextLegacy]_vars

\* the logger alone: the console overrides and the wrapped fetch
InitLogger ==
    /\ InitBackground /\ InitPopup /\ InitPage
    /\ store = FreshStore
    /\ run = [ msgs |-> 0, posts |-> 0, senders |-> {}, tabs |-> {}, ops |-> MaxPopupOps, history |-> FALSE ]
    /\ pageRun = [ events |-> MaxPageEvents, console |-> ConsoleArgs,
                   calls |-> FetchCalls, forged |-> {} ]

NextLogger == ConsoleCall \/ FetchCall \/ FetchSettle \/ FetchBody

SpecLogger == InitLogger /\ [][NextLogger]_vars

\* the way of a window message through the bridge into the queue, on a tab
\* of an auto-allowed host
RelayArgs ==
    { << Value("string", s_secret, << >>) >>,
      << Value("string", s_userFailed, << >>), Value("cyclic", << >>, << >>) >> }

InitRelay ==
    /\ InitBackground /\ InitPopup /\ InitPage
    /\ store = FreshStore
    /\ run = [ msgs |-> MaxPageEvents, posts |-> MaxInflight,
               senders |-> { h_localhost5173 }, tabs |-> {}, ops |-> MaxPopupOps, history |-> FALSE ]
    /\ pageRun = [ events |-> MaxPageEvents, console |-> RelayArgs,
                   calls |-> {}, forged |-> ForgedEvents ]

NextRelay ==
    \/ PagePost \/ ConsoleCall \/ BridgeMessage \/ RelayDeliver
    \/ TimerFire \/ FlushOk

SpecRelay == InitRelay /\ [][NextRelay]_vars

\* sanitize alone, on every string of Texts
InitSanitize ==
    /\ InitBackground /\ InitPopup
    /\ store = FreshStore
    /\ run = [ msgs |-> 0, posts |-> 0, senders |-> {}, tabs |-> {}, ops |-> MaxPopupOps, history |-> FALSE ]
    /\ InitIdlePage
    /\ pageRun = [ events |-> 0, console |-> {}, calls |-> {}, forged |-> {} ]
    /\ InitNoDiscovery /\ InitNoHook /\ InitXhr
    /\ rawText \in Texts
    /\ clean = NotSanitized

NextSanitize == SanitizeCall \/ SendSanitize

SpecSanitize == InitSanitize /\ [][NextSanitize]_vars

\* discoverServer, whatever answers on the six ports
InitDiscover ==
    /\ InitBackground /\ InitPopup
    /\ store = FreshStore
    /\ run = [ msgs |-> 0, posts |-> 0, senders |-> {}, tabs |-> {}, ops |-> MaxPopupOps, history |-> FALSE ]
    /\ InitIdlePage /\ InitNoSanitizer /\ InitNoHook /\ InitXhr
    /\ pageRun = [ events |-> 0, console |-> {}, calls |-> {}, forged |-> {} ]
    /\ ACTIVE_PORT = 5000
    /\ endpoints = [ u \in EndpointNames |-> 5000 ]
    /\ pingAnswers \in [ Range(PORT_RANGE) -> PingAnswers ]
    /\ discoveries = [ began |-> 0, running |-> {}, limit |-> MaxDiscoveries ]
    /\ lastDiscovery = NoDiscovery

NextDiscover == DiscoverStart \/ DiscoverFetched \/ DiscoverParsed

SpecDiscover == InitDiscover /\ [][NextDiscover]_vars

\* calls of discoverServer that overlap, while the server moves between the
\* ports and the queue is flushed and the reachability probes are answered
InitPorts ==
    /\ InitBackground /\ InitPopup
    /\ store = FreshStore
    /\ run = [ msgs |-> MaxPortRecords, posts |-> MaxBatchInflight,
               senders |-> { h_localhost5173 }, tabs |-> {},
               ops |-> MaxPopupOps, history |-> FALSE ]
    /\ InitIdlePage /\ InitNoSanitizer /\ InitNoHook /\ InitXhr
    /\ pageRun = [ events |-> 0, console |-> {}, calls |-> {}, forged |-> {} ]
    /\ ACTIVE_PORT = 5000
    /\ endpoints = [ u \in EndpointNames |-> 5000 ]
    /\ pingAnswers = ServerOn(ServerPorts[1])
    /\ discoveries = [ began |-> 0, running |-> {},
                       limit |-> MaxConcurrentDiscoveries ]
    /\ lastDiscovery = NoDiscovery

NextPorts ==
    \/ DiscoverStart \/ DiscoverFetched \/ DiscoverParsed \/ ServerMoves
    \/ LogError \/ TimerFire \/ FlushOk \/ FlushFail
    \/ CheckServer \/ CheckServerDone \/ HandshakeDone

SpecPorts == InitPorts /\ [][NextPorts]_vars

\* the Node.js hook in a process that reports errors while time passes
InitHookRun ==
    /\ InitBackground /\ InitPopup
    /\ store = FreshStore
    /\ run = [ msgs |-> 0, posts |-> 0, senders |-> {}, tabs |-> {}, ops |-> MaxPopupOps, history |-> FALSE ]
    /\ InitIdlePage /\ InitNoSanitizer /\ InitNoDiscovery /\ InitXhr
    /\ pageRun = [ events |-> 0, console |-> {}, calls |-> {}, forged |-> {} ]
    /\ InitHook
    /\ hookEvents = [ errors |-> 0, ticks |-> 0, alive |-> TRUE, flying |-> 0 ]

NextHook == HookError \/ SendErrorDone \/ Tick

SpecHook == InitHookRun /\ [][NextHook]_vars

----------------------------------------------------------------------------
(* Properties of the batching queue *)

NoDuplicates(q) == \A i, j \in 1..Len(q) : i # j => q[i] # q[j]

InFlightRecords == UNION { Range(e.batch) : e \in inflight }

JustFailed == lastFlush.outcome = "fail"

\* C1, as stated: whenever a flushQueue POST fails, also one that overlapped
\* with a second flush, the queue afterwards is the failed batch in its
\* original order followed by every record enqueued while that POST was in
\* flight.
C1_FailedBatchThenAllEnqueuedDuring ==
    JustFailed => errorQueue = lastFlush.post.batch \o lastFlush.post.during

\* C1, amended: whenever a flushQueue POST fails, the queue afterwards is the
\* failed batch in its original order followed by the queue as it stood just
\* before the failure was handled; no record is lost (every record enqueued
\* during the POST is in the queue, in another POST in flight or acknowledged)
\* and none is duplicated; and when no other flush POST was in flight at any
\* time during the failed one, what follows the batch is exactly the records
\* enqueued while it was in flight.
C1_FailedBatchRequeuedInFront ==
    JustFailed =>
        LET e == lastFlush.post
        IN  /\ errorQueue = e.batch \o lastFlush.before
            /\ ~e.overlapped => errorQueue = e.batch \o e.during
            /\ Range(e.during) \subseteq
                   Range(errorQueue) \cup InFlightRecords \cup acked
            /\ NoDuplicates(errorQueue)
            /\ Range(errorQueue) \cap (InFlightRecords \cup acked) = {}

\* a POST that failed after records were enqueued during it, and one that
\* failed after a second flush was started during it
C1_Witness ==
    /\ JustFailed
    /\ lastFlush.post.during # << >>
    /\ lastFlush.post.overlapped
    /\ errorQueue # lastFlush.post.batch \o lastFlush.post.during

\* C2: no record is in more than one batch answered 2xx, and a batch that was
\* answered 2xx is never put back: its records are neither in the queue nor
\* in a POST in flight.
C2_NoDuplicateAcrossAcks ==
    /\ ackedTwice = {}
    /\ acked \cap Range(errorQueue) = {}
    /\ acked \cap InFlightRecords = {}
    /\ \A e, f \in inflight : e # f => Range(e.batch) \cap Range(f.batch) = {}

\* a batch was answered 2xx after an earlier one had failed and been requeued
C2_Witness ==
    /\ lastFlush.outcome = "ok"
    /\ Len(lastFlush.post.batch) >= 2
    /\ \E i \in 1..(Len(lastFlush.post.batch) - 1) :
           lastFlush.post.batch[i].id > lastFlush.post.batch[i + 1].id

\* C3: BATCH_SIZE consecutive queueError calls from an empty queue with no
\* timer armed and the server flagged reachable cause exactly one POST, whose
\* batch is those BATCH_SIZE records; afterwards the queue is empty and no
\* timer is armed.
C3_FullBatchFlushesOnce ==
    Len(streak.recs) = BATCH_SIZE =>
        /\ streak.posts = 1
        /\ \E e \in inflight : e.batch = streak.recs /\ e.during = << >>
        /\ Cardinality({ e \in inflight : Range(e.batch) \cap Range(streak.recs) # {} }) = 1
        /\ errorQueue = << >>
        /\ ~flushTimer

\* the tenth consecutive call has been made, after earlier traffic
C3_Witness ==
    /\ Len(streak.recs) = BATCH_SIZE
    /\ streak.recs[1].id > 1

----------------------------------------------------------------------------
(* Properties of the admission of LOG_ERROR messages *)

QueuedRecords == Range(errorQueue) \cup InFlightRecords \cup acked

Waiting(id) == \E i \in 1..Len(pending) : pending[i].id = id

Admissible == { "auto", "whitelist", "session" }

C10_UnreadableWhitelistAdmitsNothing ==
    \A id \in DOMAIN checks :
        checks[id].saw = "unreadable" =>
            /\ \A r \in QueuedRecords : r.id # id
            /\ checks[id].answer # "queued"

\* the rejected read of a check has been handled, for a host that is in the
\* stored permanent list
C10_Witness ==
    \E id \in DOMAIN checks :
        /\ checks[id].saw = "unreadable"
        /\ ~Waiting(id)
        /\ Includes(OrEmpty(store.whitelist), checks[id].domain)

----------------------------------------------------------------------------
(* Properties of the admission decision and of the whitelist operations *)

Lists == getWhitelist(store)

Decision(h) == PopupDecision(h, Lists)

\* the shape tests of isAutoAllowed
AutoShaped(h) == MatchesAutoPattern(h) \/ PortIsDev(h)

\* C5: the decision carries the reason of the first rule that matches, in the
\* order auto, whitelist, session, blocked, and allowed is false exactly for
\* blocked.
C5_FirstMatchingRuleWins ==
    \A h \in Hosts :
        LET inP == Includes(Lists.permanent, h)
            inS == Includes(Lists.session, h)
        IN  /\ AutoShaped(h) => Decision(h).reason = "auto"
            /\ ~AutoShaped(h) /\ inP => Decision(h).reason = "whitelist"
            /\ ~AutoShaped(h) /\ ~inP /\ inS => Decision(h).reason = "session"
            /\ ~AutoShaped(h) /\ ~inP /\ ~inS => Decision(h).reason = "blocked"
            /\ Decision(h).allowed <=> Decision(h).reason # "blocked"

\* updateUI decided 'auto' for a host that is in both lists, and 'whitelist'
\* is what the stored lists give a host that is in both
C5_Witness ==
    /\ status # NoStatus
    /\ status.domain = h_localhost5173
    /\ status.decision.reason = "auto"
    /\ Includes(Lists.permanent, h_localhost5173)
    /\ Includes(Lists.session, h_localhost5173)
    /\ Includes(Lists.permanent, h_example)
    /\ Includes(Lists.session, h_example)

\* the port of a host string as URL.port gives it: the digits after the last
\* colon, when only digits follow it
UrlPort(h) ==
    LET ends == { i \in 1..Len(h) :
                    h[i] = ":" /\ IsDigits(SubSeq(h, i + 1, Len(h))) }
    IN  IF ends = {} THEN Undefined
        ELSE SubSeq(h, (CHOOSE i \in ends : TRUE) + 1, Len(h))

\* C6, as stated: every host that matches an auto-allow pattern, or whose port
\* is one of the dev ports, is allowed with reason 'auto' whatever the lists
\* hold.
C6_PatternOrDevPortIsAuto ==
    \A h \in Hosts :
        MatchesAutoPattern(h) \/ UrlPort(h) \in DEV_PORTS =>
            Decision(h) = [ allowed |-> TRUE, reason |-> "auto" ]

\* the stored view of the lists after a whitelist operation that runs from
\* its read to its write with no other write in between
RunAdd(st, d, permanent) == AddWrite(st, getWhitelist(st), d, permanent)

RunRemove(st, d) == RemoveWrite(st, getWhitelist(st), d)

Without(list, d) == SelectSeq(list, LAMBDA x : x # d)

\* C7: for a host d that is not auto-allowed, empty lists give blocked; the
\* write that completes addToWhitelist(d, true) leaves a store on which the
\* decision is whitelist; the write that completes removeFromWhitelist(d)
\* leaves d in neither list, and the decision blocked.
C7_AddThenRemove ==
    /\ [](\A d \in Hosts :
            ~AutoShaped(d) /\ Lists.permanent = << >> /\ Lists.session = << >>
                => Decision(d) = [ allowed |-> FALSE, reason |-> "blocked" ])
    /\ [][\A o \in popupOps :
            popupOps' = popupOps \ {o} /\ ~AutoShaped(o.domain) =>
                LET after == PopupDecision(o.domain, getWhitelist(store'))
                IN  /\ o.op = "add" /\ o.permanent =>
                        after = [ allowed |-> TRUE, reason |-> "whitelist" ]
                    /\ o.op = "remove" =>
                        /\ ~Includes(getWhitelist(store').permanent, o.domain)
                        /\ ~Includes(getWhitelist(store').session, o.domain)
                        /\ after = [ allowed |-> FALSE, reason |-> "blocked" ]
         ]_vars

\* the popup showed 'whitelist' for a host, so its permanent enable had
\* completed, and a removal has completed since: the host is in no list
C7_Witness ==
    /\ status # NoStatus
    /\ status.domain = h_example
    /\ status.decision.reason = "whitelist"
    /\ popupOps = {}
    /\ store.whitelist # Undefined
    /\ ~Includes(Lists.permanent, h_example)
    /\ ~Includes(Lists.session, h_example)

\* C8: adding a host that is already in the targeted list, and removing a
\* host that is in neither list, leave both stored lists with the same
\* contents; an add puts no duplicate and changes no other entry, a remove
\* changes no other entry; and the same operation applied twice gives the
\* stored lists that applying it once gives.
C8_MutationsIdempotent ==
    \A d \in Hosts :
        /\ \A permanent \in BOOLEAN :
             LET once == RunAdd(store, d, permanent)
                 target(l) == IF permanent THEN l.permanent ELSE l.session
                 other(l) == IF permanent THEN l.session ELSE l.permanent
             IN  /\ Includes(target(Lists), d) =>
                        getWhitelist(once) = Lists
                 /\ getWhitelist(RunAdd(once, d, permanent)) = getWhitelist(once)
                 /\ NoDuplicates(target(Lists)) =>
                        NoDuplicates(target(getWhitelist(once)))
                 /\ Without(target(getWhitelist(once)), d) = Without(target(Lists), d)
                 /\ other(getWhitelist(once)) = other(Lists)
        /\ LET once == RunRemove(store, d)
           IN  /\ ~Includes(Lists.permanent, d) /\ ~Includes(Lists.session, d) =>
                      getWhitelist(once) = Lists
               /\ getWhitelist(RunRemove(once, d)) = getWhitelist(once)
               /\ getWhitelist(once).permanent = Without(Lists.permanent, d)
               /\ getWhitelist(once).session = Without(Lists.session, d)

\* the popup is open on a host that is in the permanent list already, beside
\* another entry, while the session list was never stored
C8_Witness ==
    /\ status # NoStatus
    /\ status.domain = h_example
    /\ status.decision.reason = "whitelist"
    /\ Includes(Lists.permanent, h_example)
    /\ Len(Lists.permanent) = 2
    /\ store.sessionWhitelist = Undefined

\* C9, as stated: a session start empties sessionWhitelist and leaves the
\* permanent list unchanged, and once a session has started a host comes into
\* the stored session list only by the write of an 'enable for this session'
\* of that host, whatever popup operation was in progress across the start.
C9_SessionEntriesOnlyByEnable ==
    [][ /\ sessions' = sessions + 1 =>
               /\ store'.sessionWhitelist = << >>
               /\ store'.whitelist = store.whitelist
        /\ \A d \in run.tabs :
               /\ sessions' >= 1
               /\ ~Includes(Lists.session, d)
               /\ Includes(getWhitelist(store').session, d)
               => \E o \in popupOps :
                      /\ popupOps' = popupOps \ {o}
                      /\ o.op = "add" /\ ~o.permanent /\ o.domain = d
      ]_vars

----------------------------------------------------------------------------
(* Properties of the reachability flag, the flush timer and the batch order *)

\* C11, as stated: once the failure of a flush POST (a non-2xx answer or a
\* thrown fetch) has been handled, isServerAvailable is false.
C11_FailedFlushMarksUnreachable == JustFailed => ~isServerAvailable

\* C12, as stated: when checkServer has handled a 2xx answer of its probe,
\* isServerAvailable is true and the queue it found has been flushed: the
\* queue is empty and a POST carries what was pending.
C12_ProbeSuccessFlushes ==
    lastFlush.outcome = "probed" /\ lastFlush.ok =>
        /\ isServerAvailable
        /\ lastFlush.queue # << >> =>
               /\ errorQueue = << >>
               /\ \E e \in inflight : e.batch = lastFlush.queue

\* C13: a call of flushQueue on an empty queue, or while isServerAvailable is
\* false, begins no POST and leaves the queue, the flag and the timer (its
\* handle and the armed timeouts) as they were at the call.
C13_FlushNoOp ==
    /\ lastFlush.outcome = "called"
           /\ (lastFlush.queue = << >> \/ ~lastFlush.avail) =>
               /\ errorQueue = lastFlush.queue
               /\ inflight = lastFlush.infl
               /\ isServerAvailable = lastFlush.avail
               /\ flushTimer = lastFlush.timer
               /\ timeouts = lastFlush.timeouts
    /\ \A avail \in BOOLEAN :
           flushQueue(<< >>, avail, inflight)
               = [ queue |-> << >>, inflight |-> inflight ]
    /\ flushQueue(errorQueue, FALSE, inflight)
           = [ queue |-> errorQueue, inflight |-> inflight ]

\* queueError called flushQueue on a full queue while the server was flagged
\* unreachable
C13_Witness ==
    /\ lastFlush.outcome = "called"
    /\ lastFlush.by = "queueError"
    /\ ~lastFlush.avail
    /\ Len(errorQueue) >= BATCH_SIZE

\* C14: queueError appends the record; when the queue then holds BATCH_SIZE
\* records or more it calls flushQueue at once and leaves no timeout armed and
\* no handle; otherwise it leaves exactly one timeout armed; and at any time
\* at most one timeout is armed, which is the one flushTimer holds.
C14_AtMostOneTimer ==
    /\ timeouts <= 1
    /\ flushTimer <=> timeouts = 1
    /\ lastFlush.outcome = "scheduled" =>
           /\ errorQueue # << >>
           /\ errorQueue[Len(errorQueue)] = lastFlush.rec
           /\ Len(errorQueue) < BATCH_SIZE
           /\ flushTimer /\ timeouts = 1
    /\ lastFlush.outcome = "called" /\ lastFlush.by = "queueError" =>
           /\ Len(lastFlush.queue) >= BATCH_SIZE
           /\ lastFlush.queue[Len(lastFlush.queue)].id = msgCount
           /\ ~flushTimer /\ timeouts = 0
           /\ lastFlush.avail => errorQueue = << >>

\* the call that filled the queue cancelled the timeout that the first call
\* of the streak had armed
C14_Witness ==
    /\ lastFlush.outcome = "called"
    /\ lastFlush.by = "queueError"
    /\ Len(streak.recs) = BATCH_SIZE
    /\ inflight # {}

\* C15, as stated: in every batch POSTed by flushQueue the records are in the
\* order in which queueError enqueued them (the order of their message ids),
\* also after failed batches were put back in any order of completion.
C15_BatchesInEnqueueOrder ==
    \A e \in inflight :
        \A i, j \in 1..Len(e.batch) : i < j => e.batch[i].id < e.batch[j].id

----------------------------------------------------------------------------
(* Properties of the bridge and of the way into the queue *)

\* a window message posted by the window itself, tagged FIXONCE, with a
\* payload
Acceptable(ev) ==
    /\ ev.from = "self"
    /\ ev.data.kind = "object"
    /\ ev.data.source = "FIXONCE"
    /\ ev.data.payload.kind = "record"

InChannel(h) == { i \in 1..Len(channel) : channel[i].hop = h }

Received(h) == { x \in relayed : x.hop = h }

\* the places in the queue, in the POSTs in flight and among the answered
\* records where the record of message id is
Places(id) ==
    Cardinality({ i \in 1..Len(errorQueue) : errorQueue[i].id = id })
        + Cardinality({ e \in inflight : \E i \in 1..Len(e.batch) : e.batch[i].id = id })
        + Cardinality({ r \in acked : r.id = id })

\* C16: the bridge sends a LOG_ERROR message exactly for the window messages
\* that come from the window itself, carry the source tag FIXONCE and have a
\* payload; every message on the way to the background, every message the
\* background received and every queued record stems from such a window
\* message and carries its payload; a discarded window message leaves
\* nothing anywhere.
C16_OnlyTaggedMessagesOfTheWindow ==
    /\ \A h \in 1..Len(handled) :
           /\ handled[h].outcome # "discarded" <=> Acceptable(handled[h].event)
           /\ handled[h].outcome = "discarded" =>
                  InChannel(h) = {} /\ Received(h) = {}
    /\ \A i \in 1..Len(channel) :
           /\ channel[i].hop \in 1..Len(handled)
           /\ Acceptable(handled[channel[i].hop].event)
           /\ channel[i].payload = handled[channel[i].hop].event.data.payload
    /\ \A x \in relayed :
           /\ x.hop \in 1..Len(handled)
           /\ Acceptable(handled[x.hop].event)
           /\ x.payload = handled[x.hop].event.data.payload
    /\ \A r \in QueuedRecords : \E x \in relayed : x.id = r.id
    /\ msgCount = Cardinality(relayed)

\* a tagged message of a frame was discarded, and so was a message of the
\* window with another tag, while nothing reached the background
C16_Witness ==
    /\ \E h \in 1..Len(handled) :
           /\ handled[h].event.from = "frame"
           /\ handled[h].event.data.source = "FIXONCE"
           /\ handled[h].outcome = "discarded"
    /\ \E h \in 1..Len(handled) :
           /\ handled[h].event.from = "self"
           /\ handled[h].event.data.source = "OTHER"
           /\ handled[h].outcome = "discarded"
    /\ channel = << >> /\ relayed = {} /\ msgCount = 0

\* C17: for each window message the bridge accepted there is at most one
\* LOG_ERROR message (on the way or received), and the record of a received
\* one was enqueued at most once: it is in one place at most; when
\* sendMessage threw or its promise rejected, there is no message and no
\* record for that window message, then or later.
C17_AtMostOncePerEvent ==
    \A h \in 1..Len(handled) :
        /\ Cardinality(InChannel(h)) + Cardinality(Received(h)) <= 1
        /\ \A x \in Received(h) : Places(x.id) <= 1
        /\ handled[h].outcome \in { "threw", "rejected" } =>
               InChannel(h) = {} /\ Received(h) = {}

\* sendMessage threw for one accepted window message, and the record of
\* another one was POSTed and answered
C17_Witness ==
    /\ \E h \in 1..Len(handled) : handled[h].outcome = "threw"
    /\ \E h \in 1..Len(handled) :
           /\ handled[h].outcome = "sent"
           /\ \E x \in Received(h) : \E r \in acked : r.id = x.id

\* sanitize leaves the string as it is
Clear(str) == sanitize(str) = str

\* C18, as stated: the string fields of every record that is in the queue or
\* in a POST have been through the sanitizer, also when the window message
\* was posted by the page itself with the tag FIXONCE.
C18_QueuedRecordsSanitized ==
    \A x \in relayed :
        (\E r \in QueuedRecords : r.id = x.id) =>
            /\ Clear(x.payload.message)
            /\ Clear(x.payload.file)
            /\ Clear(x.payload.url)

----------------------------------------------------------------------------
(* Properties of the logger *)

\* C19: a call of the overridden console.error or console.warn calls the
\* original exactly once, with the arguments of the call, as its first step,
\* whether the derivation of the message throws or not, and does not throw
\* into its caller.
C19_OriginalCalledFirst ==
    lastCall.fn # "none" =>
        /\ lastCall.origCalls = << lastCall.args >>
        /\ lastCall.steps[1] = "orig"
        /\ Cardinality({ i \in 1..Len(lastCall.steps) :
                           lastCall.steps[i] = "orig" }) = 1
        /\ ~lastCall.threw
        /\ DeriveMessage(lastCall.fn, lastCall.args).ok <=>
               Len(lastCall.posted) = 1

\* console.error was called with an argument JSON.stringify throws on:
\* nothing was posted
C19_Witness ==
    /\ lastCall.fn = "error"
    /\ \E i \in 1..Len(lastCall.args) : lastCall.args[i].kind = "cyclic"
    /\ lastCall.posted = << >>

\* C20: when the wrapped fetch resolves, it has emitted one http.error record
\* for a status from 400 on, of severity error below 500 and critical from
\* 500 on, and none for a status below 400; when the unwrapped fetch rejects
\* with the TypeError of a transport failure, the wrapped one has emitted one
\* http.network record of severity critical and rejects with that error.
C20_OneRecordPerHttpError ==
    /\ lastFetch.outcome = "resolved" =>
           IF lastFetch.status >= 400
           THEN /\ Len(lastFetch.emitted) = 1
                /\ lastFetch.emitted[1].type = "http.error"
                /\ lastFetch.emitted[1].severity =
                       (IF lastFetch.status < 500 THEN "error" ELSE "critical")
                /\ lastFetch.emitted[1].line = << lastFetch.status >>
           ELSE lastFetch.emitted = << >>
    /\ lastFetch.outcome = "rejected" /\ lastFetch.original = NetworkError =>
           /\ Len(lastFetch.emitted) = 1
           /\ lastFetch.emitted[1].type = "http.network"
           /\ lastFetch.emitted[1].severity = "critical"
           /\ lastFetch.thrown = lastFetch.original

\* a response of status 500 was recorded as critical, and a later call
\* failed in the network
C20_Witness ==
    /\ lastFetch.outcome = "rejected"
    /\ lastFetch.original = NetworkError
    /\ \E i \in 1..Len(windowMsgs) :
           /\ windowMsgs[i].data.payload.type = "http.error"
           /\ windowMsgs[i].data.payload.line = << 500 >>
           /\ windowMsgs[i].data.payload.severity = "critical"

----------------------------------------------------------------------------
(* Properties of the sanitizer *)

\* a match of the pattern of a pass begins somewhere in str
Matches(pass, str) == \E i \in 1..Len(str) : MatchEnd(pass, str, i) # 0

\* every match of the password pattern in str is the placeholder of that pass
OnlyRedactedPasswords(str) ==
    \A i \in 1..Len(str) :
        MatchEnd(3, str, i) # 0 =>
            SubSeq(str, i, MatchEnd(3, str, i)) = Placeholder(3)

\* C21, as stated: what sanitize returns holds no match of the email, Bearer,
\* card, API key or JWT pattern, and no match of the password pattern other
\* than password=[REDACTED]; a later pass exposes no match of an earlier one.
C21_NoSecretInOutput ==
    clean.runs = 1 =>
        /\ \A pass \in { 1, 2, 4, 5, 6 } : ~Matches(pass, clean.out)
        /\ OnlyRedactedPasswords(clean.out)

\* the matches a pass replaces in str from position i on: leftmost first, not
\* overlapping
RECURSIVE Occurrences(_, _, _)
Occurrences(pass, str, i) ==
    LET starts == { j \in i..Len(str) : MatchEnd(pass, str, j) # 0 }
    IN  IF starts = {} THEN 0
        ELSE 1 + Occurrences(pass, str, MatchEnd(pass, str, MinOf(starts)) + 1)

CountOf(lit, str) == Cardinality({ i \in 1..Len(str) : HasAt(str, i, lit) })

\* C22, as stated: when the string holds email-shaped substrings, what
\* sanitize returns holds none, and holds as many [EMAIL] placeholders as the
\* string had email occurrences.
C22_EmailCountPreserved ==
    clean.runs = 1 /\ Matches(1, rawText) =>
        /\ ~Matches(1, clean.out)
        /\ CountOf(Placeholder(1), clean.out) = Occurrences(1, rawText, 1)

\* C22, amended: what sanitize returns holds no email-shaped substring and at
\* most one [EMAIL] placeholder per email occurrence of the string; exactly
\* one per occurrence when the string holds no password fragment, whose
\* replacement takes a placeholder in its value with it.
C22_EmailsReplaced ==
    clean.runs = 1 /\ Matches(1, rawText) =>
        /\ ~Matches(1, clean.out)
        /\ CountOf(Placeholder(1), clean.out) <= Occurrences(1, rawText, 1)
        /\ ~Matches(3, rawText) =>
               CountOf(Placeholder(1), clean.out) = Occurrences(1, rawText, 1)

\* two emails in one string, two placeholders in what sanitize returns
C22_Witness ==
    /\ clean.runs = 1
    /\ Occurrences(1, rawText, 1) = 2
    /\ CountOf(Placeholder(1), clean.out) = 2

Contains(str, lit) == \E i \in 1..Len(str) : HasAt(str, i, lit)

\* the runs of 32 letters and digits or more in str, a letter and a digit
\* among them, each as long as it goes
KeyRuns(str) ==
    { SubSeq(str, i, i + RunLen(str, i, Alnum) - 1) :
        i \in { j \in 1..Len(str) :
                  /\ ~(j > 1 /\ str[j - 1] \in Alnum)
                  /\ RunLen(str, j, Alnum) >= 32
                  /\ \E k \in j..(j + RunLen(str, j, Alnum) - 1) : str[k] \in Letters
                  /\ \E k \in j..(j + RunLen(str, j, Alnum) - 1) : str[k] \in Digits } }

----------------------------------------------------------------------------
(* Properties of the logger's records *)

\* C24, as stated: a call of console.error or console.warn with an argument
\* that JSON.stringify throws on (a cycle) still emits one record.
C24_CyclicArgumentStillCaptured ==
    /\ lastCall.fn # "none"
    /\ \E i \in 1..Len(lastCall.args) : lastCall.args[i].kind = "cyclic"
    => Len(lastCall.posted) = 1

----------------------------------------------------------------------------
(* Properties of the port discovery *)

\* the place in PORT_RANGE of the first port that answers as fixonce, 0 when
\* no port does
FirstQualifying(answers) ==
    LET q == { k \in 1..Len(PORT_RANGE) : answers[PORT_RANGE[k]] = "fixonce" }
    IN  IF q = {} THEN 0 ELSE MinOf(q)

\* C25: a call of discoverServer returns true with the first port of
\* 5000..5005 that answers 2xx as service fixonce, and has then set
\* ACTIVE_PORT and the four endpoint URLs to that port; ports that throw,
\* answer non-2xx, have no JSON body or name another service are passed over;
\* when no port qualifies it returns false and the step that returns leaves
\* ACTIVE_PORT and the URLs as they were.
C25_AdoptsFirstQualifyingPort ==
    [][ lastDiscovery' # lastDiscovery =>
          LET first == FirstQualifying(pingAnswers)
          IN  IF first # 0
              THEN /\ lastDiscovery'.result
                   /\ lastDiscovery'.port = PORT_RANGE[first]
                   /\ ACTIVE_PORT' = PORT_RANGE[first]
                   /\ \A u \in EndpointNames : endpoints'[u] = PORT_RANGE[first]
              ELSE /\ ~lastDiscovery'.result
                   /\ ACTIVE_PORT' = ACTIVE_PORT
                   /\ endpoints' = endpoints ]_vars

\* port 5000 names another service, 5001 has no JSON body, 5002 is fixonce
\* and also 5004: the call returned true with 5002
C25_Witness ==
    /\ pingAnswers[5000] = "other"
    /\ pingAnswers[5001] = "badjson"
    /\ pingAnswers[5002] = "fixonce"
    /\ pingAnswers[5004] = "fixonce"
    /\ lastDiscovery.id # 0
    /\ lastDiscovery.result
    /\ ACTIVE_PORT = 5002
    /\ endpoints = [ u \in EndpointNames |-> 5002 ]

----------------------------------------------------------------------------
(* Properties of the Node.js hook *)

\* the sends whose time lies in the 60 seconds that begin at time t
SendsFrom(t) ==
    { j \in 1..Len(sendLog) : sendLog[j] >= t /\ sendLog[j] <= t + RATE_WINDOW }

\* C26: the hook sends at most 10 payloads in any 60 seconds, whatever the
\* handlers that report the errors; when no send is in flight, rateLimitCheck
\* admits exactly when fewer than 10 sends were made in the last 60000 ms.
C26_AtMostTenSendsPerMinute ==
    /\ \A i \in 1..Len(sendLog) :
           Cardinality(SendsFrom(sendLog[i])) <= MAX_ERRORS_PER_MINUTE
    /\ ~isSending =>
           (rateLimitCheck(errorTimestamps, now).ok
               <=> Cardinality(SendsFrom(now - RATE_WINDOW))
                       < MAX_ERRORS_PER_MINUTE)

\* ten sends at time 0, an error refused 60000 ms later, the eleventh send
\* after 60001 ms
C26_Witness ==
    /\ Len(sendLog) = 11
    /\ sendLog[10] = 0
    /\ sendLog[11] = RATE_WINDOW + 1
    /\ hookEvents.errors = 12
    /\ hookEvents.ticks = 2

----------------------------------------------------------------------------
(* Properties of the HTTP error records *)

\* C27, as stated: the record emitted for a response with a status from 400
\* on carries the response body, sanitized and of at most 500 characters.
C27_HttpRecordCarriesBody ==
    lastFetch.outcome = "resolved" /\ lastFetch.status >= 400 =>
        \A i \in 1..Len(lastFetch.emitted) :
            /\ "responseBody" \in DOMAIN lastFetch.emitted[i]
            /\ Len(lastFetch.emitted[i].responseBody) <= BODY_LIMIT
            /\ Clear(lastFetch.emitted[i].responseBody)

----------------------------------------------------------------------------
(* Progress of the batching queue *)

ProbeSucceeded == lastFlush.outcome = "probed" /\ lastFlush.ok

InQueue(id) == \E i \in 1..Len(errorQueue) : errorQueue[i].id = id

InPost(id) == \E e \in inflight : \E i \in 1..Len(e.batch) : e.batch[i].id = id

\* C28, as stated: while the background keeps running and checkServer finds
\* the server reachable again and again, a record that is in errorQueue is
\* eventually in a batch POST, without any further enqueue; so for a record
\* put back after a failed flush and for one that waited while the server was
\* flagged unreachable.
C28_QueuedRecordEventuallyPosted ==
    \A id \in 1..MaxQueueRecords :
        []<>ProbeSucceeded => (InQueue(id) ~> InPost(id))

----------------------------------------------------------------------------
(* The places of a record *)

Accepted == { id \in DOMAIN checks : checks[id].answer = "queued" }

\* C29: every record accepted by queueError is in exactly one place: in
\* errorQueue once, in one POST in flight, or among the records answered 2xx;
\* a record of a message that was not accepted is in none.
C29_ExactlyOnePlace ==
    \A id \in DOMAIN checks :
        Places(id) = (IF id \in Accepted THEN 1 ELSE 0)

\* right after a failed POST that overlapped with another: one record is in
\* the queue again, another in the POST still in flight, a third was answered
C29_Witness ==
    /\ JustFailed
    /\ lastFlush.post.overlapped
    /\ \E i, j, k \in Accepted :
           /\ InQueue(i) /\ InPost(j) /\ \E r \in acked : r.id = k
           /\ Places(i) = 1 /\ Places(j) = 1 /\ Places(k) = 1

----------------------------------------------------------------------------
(* The order of the records of one sender *)

NewlyQueued(id) ==
    /\ id \in DOMAIN checks' /\ checks'[id].answer = "queued"
    /\ ~(id \in DOMAIN checks /\ checks[id].answer = "queued")

----------------------------------------------------------------------------
(* Properties of concurrent whitelist operations and of the popup's effect *)
(* on capture                                                              *)

\* is the host in the stored permanent list, in the stored session list
Stored(st, d) ==
    << Includes(getWhitelist(st).permanent, d), Includes(getWhitelist(st).session, d) >>

\* C31, as stated: whitelist operations never lose updates. Whatever the
\* interleaving of the reads and writes of two operations on different
\* origins, the write of an operation changes the stored membership of its
\* own origin only, so that the stored lists reflect both operations once
\* both have completed.
C31_NoLostUpdate ==
    [][ \A d \in run.tabs :
            Stored(store', d) # Stored(store, d)
            => \E o \in popupOps : popupOps' = popupOps \ {o} /\ o.domain = d
      ]_vars


\* the admission checks, over, of origins that are not auto-allowed
Decided ==
    { id \in DOMAIN checks : ~Waiting(id) /\ ~isAutoAllowed(checks[id].domain) }

\* what the whitelist operation asks of the checks of its origin
Follows(op, answer) ==
    /\ op = "remove" => answer = "domain_blocked"
    /\ op = "add" => answer = "queued"

----------------------------------------------------------------------------
(* Properties of the wrapped XMLHttpRequest, the wrapped fetch and the     *)
(* minimal console overrides                                               *)

\* C33, as stated: for one completed response with a status from 400 on the
\* XHR wrapper posts exactly one http.error record (none for a lower status),
\* and for one transport failure exactly one http.network record, also when
\* the same XMLHttpRequest object is opened and sent several times.
C33_OneRecordPerXhrEvent ==
    /\ lastXhr.outcome = "load" =>
           /\ Len(lastXhr.emitted) = (IF lastXhr.status >= 400 THEN 1 ELSE 0)
           /\ \A i \in 1..Len(lastXhr.emitted) : lastXhr.emitted[i].type = "http.error"
    /\ lastXhr.outcome = "error" =>
           /\ Len(lastXhr.emitted) = 1
           /\ lastXhr.emitted[1].type = "http.network"


\* C34, as stated: the wrapped fetch settles as the unwrapped call would. It
\* rejects with the error the unwrapped call rejected with, and once the
\* unwrapped call has resolved the wrapped call resolves too, also for a
\* response from 400 on whose body never finishes arriving: no call is left
\* waiting for such a body.
C34_SettlesAsUnwrapped ==
    /\ lastFetch.outcome = "rejected" => lastFetch.thrown = lastFetch.original
    /\ \A f \in fetches : f.phase # "stalled"

\* C35, as stated: in injected.js and in the v3.0 logger, a call of
\* console.error / console.warn always calls the original function, once and
\* with the same arguments, also when deriving the message fails (a cyclic
\* argument), and the override never throws into the page's code.
C35_LegacyOverrideCallsOriginal ==
    lastCall.fn # "none" =>
        /\ lastCall.origCalls = << lastCall.args >>
        /\ ~lastCall.threw


----------------------------------------------------------------------------
(* Properties of the badge, of the two admission checks, of the hook's     *)
(* guard, of the endpoint URLs and of the flush timer                      *)

\* the records captured from the tab that no successful flush has delivered:
\* those in the queue and those in a POST that is not answered yet
Unflushed(tab) ==
    { r \in Range(errorQueue) \cup InFlightRecords : r.domain = tab }

\* C36, as stated: the badge count of a tab equals the number of records
\* captured from the tab that are still unflushed: it grows by one with each
\* record enqueued from the tab and no longer counts a record that a
\* successful flush has delivered.
C36_BadgeCountsUnflushed ==
    \A tab \in run.senders : tabErrorCounts[tab] = Cardinality(Unflushed(tab))

\* C37, as stated: for every origin string and every state of the stored
\* lists, the background's admission check answers true exactly when the
\* popup's admission decision says allowed, the empty origin included.
C37_BackgroundAndPopupAgree ==
    \A d \in run.tabs :
        BackgroundAllows(d, store) = PopupDecision(d, getWhitelist(store)).allowed

\* C38: at most one send of the Node.js hook is in flight at any time; an
\* error reported while a send is in flight is dropped: it starts no send and
\* no timestamp is added to errorTimestamps for it; and when a send settles
\* (answered, failed or timed out), isSending is false again.
C38_OneSendInFlight ==
    [][ /\ hookEvents'.flying <= 1
        /\ isSending /\ hookEvents'.errors = hookEvents.errors + 1 =>
               /\ errorTimestamps' = errorTimestamps
               /\ sendLog' = sendLog
               /\ hookEvents'.flying = hookEvents.flying
        /\ hookEvents'.flying < hookEvents.flying => ~isSending'
      ]_vars

\* a second send is in flight, and an error was reported during a send: more
\* errors were reported than sent, below the rate limit, and each timestamp
\* kept is that of a send
C38_Witness ==
    /\ isSending
    /\ hookEvents.flying = 1
    /\ Len(sendLog) = 2
    /\ hookEvents.errors > Len(sendLog)
    /\ errorTimestamps = sendLog

\* C39: in every reachable state SERVER_URL, BATCH_URL, HANDSHAKE_URL and
\* CURRENT_SITE_URL all hold the port that ACTIVE_PORT holds, however the
\* calls of discoverServer overlap with each other, with checkServer, with
\* the flushes of the queue and with sendHandshake.
C39_EndpointsFollowActivePort ==
    \A u \in EndpointNames : endpoints[u] = ACTIVE_PORT

\* the second call of discoverServer adopted a port while the first was at
\* an await; the server moved, and the first call then adopted another port,
\* while a batch POST and a reachability request awaited their answers
C39_Witness ==
    /\ lastDiscovery.id = 1
    /\ lastDiscovery.result
    /\ lastDiscovery.activeBefore # 5000
    /\ lastDiscovery.activeBefore # lastDiscovery.port
    /\ ACTIVE_PORT = lastDiscovery.port
    /\ endpoints = [ u \in EndpointNames |-> lastDiscovery.port ]
    /\ inflight # {}
    /\ probes.config + probes.handshake > 0

\* C40: in every reachable state of the background queue an armed flush timer
\* implies a non-empty errorQueue; a step that shortens the queue (the splice
\* of flushQueue) ends with the timer not armed; and a step that arms the
\* timer leaves a queue that is not empty and shorter than BATCH_SIZE.
C40_ArmedTimerHasRecords ==
    /\ [](flushTimer => errorQueue # << >>)
    /\ [][ /\ Len(errorQueue') < Len(errorQueue) => ~flushTimer'
           /\ ~flushTimer /\ flushTimer' =>
                  errorQueue' # << >> /\ Len(errorQueue') < BATCH_SIZE
         ]_vars

\* the tenth record made queueError clear the timer and flush; the POST of
\* the ten records is in flight, the eleventh record is queued and the timer
\* is armed again
C40_Witness ==
    /\ flushTimer
    /\ Len(errorQueue) = 1
    /\ lastFlush.outcome = "scheduled"
    /\ \E e \in inflight : Len(e.batch) = BATCH_SIZE

====
